---- MODULE Spec2Model ----
(***************************************************************************)
(* Model of the ILI -> LLVM lowering engine of cgmain.c (schedule() and    *)
(* the routines it drives): the per-routine instruction list, the          *)
(* temporaries and their use counts, the CSE list, the scheduler's block   *)
(* loop, the FMA rewrite, dead-instruction removal and the printer.        *)
(*                                                                         *)
(* Pointers to INSTR_LIST and TMPS are indices into arenas (sequences);     *)
(* NULL is 0.  An operand list (OPERAND::next chain) is a sequence of      *)
(* operand records.  Lowering routines are operators on a context record   *)
(* S holding the file-static state they read and write.                    *)
(***************************************************************************)
EXTENDS Integers, Sequences, FiniteSets, TLC

VARIABLES
  cfg,      \* compilation flags: flg.opt, flg.depchk, target, FMA x-flag
  pc,       \* position of schedule(): "lower", "rewrite", "dce", "print", "done"
  S,        \* lowering context (instruction list, temps, CSE list, ...)
  blk,      \* block loop state of schedule(): current bih attributes
  out       \* text written by write_instructions(), one record per line

vars == <<cfg, pc, S, blk, out>>

NULL == 0

(***************************************************************************)
(* Bounds.                                                                 *)
(***************************************************************************)
MaxStmts == 3     \* ILTs lowered per routine, EXIT not counted
MaxBlocks == 2    \* blocks (bih) per routine

(***************************************************************************)
(* The routine's ILI.  Operand meaning follows the ILI templates used in   *)
(* the source: LDSP addr nme; STSP/ST/ATOMICSTSP val addr nme [order];     *)
(* FMUL/FADD l r; CSESP lnk; JSR sym; ATOMICRMWI val addr nme order;       *)
(* FCJMPZ val cc label; JMP label; MVSP val; FENCE order;                  *)
(* JSR sym arg-lnk; GARGRET value next-lnk dtype; GARG value next-lnk      *)
(* dtype.  ILI 0 is the null ILI, which ends an argument list.             *)
(***************************************************************************)
Op(opc, a, b, c, d) == [opc |-> opc, opnd |-> <<a, b, c, d>>]
Op5(opc, a, b, c, d, e) == [opc |-> opc, opnd |-> <<a, b, c, d, e>>]

ILI == <<
  Op("IL_ACON", "x", 0, 0, 0),                       \* 1
  Op("IL_ACON", "y", 0, 0, 0),                       \* 2
  Op("IL_ACON", "z", 0, 0, 0),                       \* 3
  Op("IL_ACON", "u", 0, 0, 0),                       \* 4
  Op("IL_LDSP", 1, "nme_x", 0, 0),                   \* 5   x
  Op("IL_LDSP", 2, "nme_y", 0, 0),                   \* 6   y
  Op("IL_LDSP", 3, "nme_z", 0, 0),                   \* 7   z
  Op("IL_LDSP", 4, "nme_u", 0, 0),                   \* 8   u read as float
  Op("IL_FMUL", 5, 6, 0, 0),                         \* 9   x*y
  Op("IL_FADD", 9, 7, 0, 0),                         \* 10  x*y + z
  Op("IL_CSESP", 5, 0, 0, 0),                        \* 11  cse(x)
  Op("IL_CSESP", 9, 0, 0, 0),                        \* 12  cse(x*y)
  Op("IL_FADD", 12, 6, 0, 0),                        \* 13  cse(x*y) + y
  Op("IL_ICON", "1", 0, 0, 0),                       \* 14  integer constant
  Op("IL_STSP", 10, 3, "nme_z", 0),                  \* 15  z = x*y + z
  Op("IL_STSP", 5, 2, "nme_y", 0),                   \* 16  y = x
  Op("IL_STSP", 11, 2, "nme_y", 0),                  \* 17  y = cse(x)
  Op("IL_STSP", 6, 1, "nme_x", 0),                   \* 18  x = y
  Op("IL_STSP", 13, 3, "nme_z", 0),                  \* 19  z = cse(x*y) + y
  Op("IL_STSP", 6, 4, "nme_u", 0),                   \* 20  u = y   (u may overlap x)
  Op("IL_ST", 14, 1, "nme_x", "MSZ_WORD"),           \* 21  integer store to x
  Op("IL_ATOMICRMWI", 14, 4, "nme_u", "MO_SEQ_CST"), \* 22  atomic add to u
  Op("IL_ST", 22, 4, "nme_u", "MSZ_WORD"),           \* 23  u = atomicrmw(u)
  Op("IL_JSR", "f", 0, 0, 0),                        \* 24  call f()   (returns float)
  Op("IL_JSR", "g", 0, 0, 0),                        \* 25  call g()   (void)
  Op("IL_FCJMPZ", 5, "CC_EQ", "L1", 0),              \* 26  if (x == 0) goto L1
  Op("IL_JMP", "L1", 0, 0, 0),                       \* 27  goto L1
  Op("IL_MVSP", 5, 0, 0, 0),                         \* 28  return x
  Op("IL_EXIT", 0, 0, 0, 0),                         \* 29  end of routine
  Op("IL_STSP", 8, 2, "nme_y", 0),                   \* 30  y = u
  Op("IL_FADD", 9, 12, 0, 0),                        \* 31  x*y + cse(x*y)
  Op("IL_STSP", 31, 3, "nme_z", 0),                  \* 32  z = x*y + cse(x*y)
  Op("IL_ATOMICSTSP", 6, 3, "nme_z", "MO_SEQ_CST"),  \* 33  atomic z = y
  Op("IL_FENCE", "MO_ACQUIRE", 0, 0, 0),             \* 34  acquire fence
  Op("IL_FENCE", "MO_RELEASE", 0, 0, 0),             \* 35  release fence
  Op("IL_ACON", "buf", 0, 0, 0),                     \* 36  address of a struct buffer
  Op("IL_GARGRET", 36, 0, "DT_STRUCT", 0),           \* 37  hidden return buffer, no more args
  Op("IL_JSR", "h", 37, 0, 0),                       \* 38  buf = h()   (struct in a register)
  Op("IL_JSR", "s", 37, 0, 0),                       \* 39  buf = s()   (struct through sret)
  Op("IL_GARG", 5, 0, "DT_FLOAT", 0),                \* 40  argument list (x)
  Op("IL_GARG", 6, 40, "DT_FLOAT", 0),               \* 41  argument list (y, x)
  Op("IL_JSR", "k", 40, 0, 0),                       \* 42  k(x)     (no prototype)
  Op("IL_JSR", "m", 41, 0, 0),                       \* 43  m(y, x)  (no prototype, called as varargs)
  Op("IL_JSR", "v", 41, 0, 0),                       \* 44  v(y, x)  (prototype float v(float, ...))
  Op("IL_JSR", "w", 41, 0, 0),                       \* 45  w(y, x)  (prototype float w(float))
  Op("IL_LDSP", 36, "nme_buf", 0, 0),                \* 46  buf read as float
  Op("IL_STSP", 46, 2, "nme_y", 0),                  \* 47  y = buf
  Op("IL_JSR", "m", 0, 0, 0),                        \* 48  m() no prototype, no argument
  Op("IL_ATOMICLDI", 4, "nme_u", 0, "MO_CFG"),       \* 49  atomic read of u
  Op("IL_ST", 49, 1, "nme_x", "MSZ_WORD"),           \* 50  x = atomic u
  Op("IL_ATOMICSTSP", 6, 3, "nme_z", "MO_CFG"),      \* 51  atomic z = y
  Op("IL_ATOMICRMWI", 14, 4, "nme_u", "MO_CFG"),     \* 52  atomic add to u
  Op("IL_ST", 52, 1, "nme_x", "MSZ_WORD"),           \* 53  x = atomicrmw(u)
  Op("IL_FENCE", "MO_CFG", 0, 0, 0),                 \* 54  fence
  Op5("IL_CMPXCHGI", 14, 4, "nme_u", "MO_CFG", 14),  \* 55  compare u with 1, exchange with 1
  Op("IL_CMPXCHG_OLDI", 55, 0, 0, 0),                \* 56  the value u had
  Op("IL_ST", 56, 1, "nme_x", "MSZ_WORD"),           \* 57  x = old value of the cmpxchg
  Op("IL_LD", 4, "nme_u", 0, 0),                     \* 58  u read as a 32-bit integer
  Op("IL_STKR", 58, 3, "nme_z", 0),                  \* 59  z = u as a 64-bit integer
  Op("IL_JMPM", 58, 14, "sw2", "Ld"),                \* 60  switch (u) of two cases
  Op("IL_JMPMK", 58, 14, "sw3", "L1"),               \* 61  64-bit switch (u) of three cases
  Op("IL_JMPM", 58, 14, "sw0", "L1"),                \* 62  switch (u) of no case
  Op("IL_ACON", "cx", 0, 0, 0),                      \* 63  address of a complex
  Op("IL_ACON", "cy", 0, 0, 0),                      \* 64  address of a complex
  Op("IL_LDSCMPLX", 63, "nme_cx", 0, 0),             \* 65  cx
  Op("IL_LDSCMPLX", 64, "nme_cy", 0, 0),             \* 66  cy
  Op("IL_SCMPLXMUL", 65, 66, 0, 0),                  \* 67  cx * cy
  Op("IL_STSCMPLX", 67, 64, "nme_cy", 0),            \* 68  cy = cx * cy
  Op("IL_SCMPLXMUL", 65, 65, 0, 0),                  \* 69  cx * cx
  Op("IL_STSCMPLX", 69, 63, "nme_cx", 0),            \* 70  cx = cx * cx
  Op("IL_STSCMPLX", 65, 64, "nme_cy", 0),            \* 71  cy = cx
  Op("IL_JSR", "q", 40, 0, 0),                       \* 72  q(x)     (prototype float q(float), kind of the argument not set)
  Op("IL_JSR", "e", 40, 0, 0),                       \* 73  e(x)     (prototype float e(float), result sign-extended, argument in a register)
  Op("IL_IADD", 58, 14, 0, 0),                       \* 74  u + 1, signed
  Op("IL_UIADD", 58, 14, 0, 0),                      \* 75  u + 1, unsigned
  Op("IL_ST", 74, 1, "nme_x", "MSZ_WORD"),           \* 76  x = u + 1, signed
  Op("IL_ST", 75, 1, "nme_x", "MSZ_WORD"),           \* 77  x = u + 1, unsigned
  Op("IL_ST", 74, 2, "nme_y", "MSZ_BYTE"),           \* 78  the byte at y = u + 1
  Op("IL_ST", 74, 3, "nme_z", "MSZ_SHWORD")          \* 79  the halfword at z = u + 1
>>

ILI_OPC(ilix) == IF ilix = 0 THEN "IL_NULL" ELSE ILI[ilix].opc
ILI_OPND(ilix, i) == ILI[ilix].opnd[i]

IlixSet == 1..Len(ILI)

is_cseili_opcode(opc) == opc \in {"IL_CSESP"}
is_mvili_opcode(opc) == opc \in {"IL_MVSP"}
IL_TYPE(opc) ==
  CASE opc \in {"IL_LDSP", "IL_LD", "IL_ATOMICLDI", "IL_LDSCMPLX"} -> "ILTY_LOAD"
    [] opc \in {"IL_STSP", "IL_ST", "IL_STKR", "IL_ATOMICSTSP", "IL_STSCMPLX"} -> "ILTY_STORE"
    [] opc \in {"IL_ACON", "IL_ICON"} -> "ILTY_CONS"
    [] opc \in {"IL_FMUL", "IL_FADD", "IL_SCMPLXMUL", "IL_IADD", "IL_UIADD"} -> "ILTY_ARTH"
    [] opc \in {"IL_MVSP"} -> "ILTY_MOVE"
    [] opc \in {"IL_JSR"} -> "ILTY_PROC"
    [] opc \in {"IL_FCJMPZ", "IL_JMP", "IL_JMPM", "IL_JMPMK"} -> "ILTY_BRANCH"
    [] OTHER -> "ILTY_OTHER"

\* link operands (IL_ISLINK): the operand positions that are ILI indices
LinkOpnds(ilix) ==
  CASE ILI_OPC(ilix) \in {"IL_LDSP", "IL_LD", "IL_ATOMICLDI", "IL_CMPXCHG_OLDI", "IL_CSESP",
                         "IL_MVSP", "IL_FCJMPZ", "IL_LDSCMPLX"} -> <<ILI_OPND(ilix, 1)>>
    [] ILI_OPC(ilix) \in {"IL_JMPM", "IL_JMPMK"} -> <<ILI_OPND(ilix, 1), ILI_OPND(ilix, 2)>>
    [] ILI_OPC(ilix) = "IL_CMPXCHGI" ->
         <<ILI_OPND(ilix, 1), ILI_OPND(ilix, 2), ILI_OPND(ilix, 5)>>
    [] ILI_OPC(ilix) \in {"IL_GARG", "IL_GARGRET"} -> <<ILI_OPND(ilix, 1), ILI_OPND(ilix, 2)>>
    [] ILI_OPC(ilix) \in {"IL_FMUL", "IL_FADD", "IL_IADD", "IL_UIADD", "IL_STSP", "IL_ST", "IL_STKR",
                         "IL_ATOMICRMWI", "IL_ATOMICSTSP", "IL_SCMPLXMUL", "IL_STSCMPLX"} ->
         <<ILI_OPND(ilix, 1), ILI_OPND(ilix, 2)>>
    [] OTHER -> <<>>

(***************************************************************************)
(* Symbols and types.  u is declared integer and read as float, so its     *)
(* address needs a pointer bitcast for a float access.  Types are         *)
(* uniqued, so two types are the same type exactly when their names are.   *)
(***************************************************************************)
make_ptr_lltype(t) == "p" \o t

\* the function type a callee is declared with; one without a prototype is
\* declared as a varargs function without parameters
FNTYPE(sptr) ==
  CASE sptr = "f" -> "float()"
    [] sptr = "g" -> "void()"
    [] sptr = "h" -> "i64()"
    [] sptr = "s" -> "void(pstruct)"
    [] sptr \in {"k", "m"} -> "float(...)"
    [] sptr = "v" -> "float(float,...)"
    [] sptr \in {"w", "q", "e"} -> "float(float)"

LLTYPE(sptr) ==
  CASE sptr \in {"x", "y", "z"} -> "pfloat"
    [] sptr = "u" -> "pi32"
    [] sptr = "buf" -> "pstruct"
    [] sptr \in {"cx", "cy"} -> "pcmplx"
    [] OTHER -> make_ptr_lltype(FNTYPE(sptr))

sub_type(t) ==
  CASE t = "pfloat" -> "float" [] t = "pi32" -> "i32" [] t = "pi64" -> "i64"
    [] t = "pstruct" -> "struct" [] t = "pcmplx" -> "cmplx"
    [] t = "pi8" -> "i8" [] t = "pi16" -> "i16" [] OTHER -> "none"
is_ptr(t) ==
  t \notin {"float", "i32", "i64", "i1", "struct", "v4float", "void", "none", "{i32,i1}", "cmplx",
            "i8", "i16"}

\* make_type_from_msz(ILI msz operand): the access size is fixed by the
\* opcode, or named by the size operand of an integer store
make_type_from_msz(opc) ==
  CASE opc \in {"IL_LDSP", "IL_STSP", "IL_ATOMICSTSP"} -> "float"
    [] opc = "IL_STKR" -> "i64"
    [] opc \in {"IL_LDSCMPLX", "IL_STSCMPLX"} -> "cmplx"
    [] opc = "MSZ_BYTE" -> "i8"
    [] opc = "MSZ_SHWORD" -> "i16"
    [] OTHER -> "i32"

\* ILI_MSZ_OF_ST(): the size operand of an integer store; the opcode of any
\* other store, which fixes the size
ILI_MSZ_OF_ST(ilix) ==
  IF ILI_OPC(ilix) = "IL_ST" THEN ILI_OPND(ilix, 4) ELSE ILI_OPC(ilix)

\* make_lltype_from_dtype() on the data types used: a single-precision
\* complex is the aggregate {float, float}, named cmplx
make_lltype_from_dtype(dtype) ==
  CASE dtype = "DT_CMPLX" -> "cmplx" [] dtype = "DT_FLOAT" -> "float"

\* ll_type_int_bits(): the width of an integer type, 0 for any other type
ll_type_int_bits(t) ==
  CASE t = "i1" -> 1 [] t = "i8" -> 8 [] t = "i16" -> 16 [] t = "i32" -> 32
    [] t = "i64" -> 64 [] OTHER -> 0

\* ll_type_bytes() on the integer types
ll_type_bytes(t) == (ll_type_int_bits(t) + 7) \div 8

strict_match(ty1, ty2) == ty1 = ty2

\* match_types() on the types above: identical types match; ty2 with one more
\* level of indirection than ty1 is MATCH_MEM; anything else is MATCH_NO.
match_types(ty1, ty2) ==
  IF ty1 = ty2 THEN "MATCH_OK"
  ELSE IF is_ptr(ty2) /\ ~is_ptr(ty1) /\ sub_type(ty2) = ty1 THEN "MATCH_MEM"
  ELSE "MATCH_NO"

(***************************************************************************)
(* Operands, temporaries, instructions.                                    *)
(***************************************************************************)
make_operand == [ot_type |-> "OT_NONE", tmps |-> NULL, val |-> "", ll_type |-> "none"]
make_tmp_op(llt, tmps) == [ot_type |-> "OT_TMP", tmps |-> tmps, val |-> "", ll_type |-> llt]
make_var_op(sptr) == [ot_type |-> "OT_VAR", tmps |-> NULL, val |-> sptr, ll_type |-> LLTYPE(sptr)]
make_label_op(sptr) == [ot_type |-> "OT_LABEL", tmps |-> NULL, val |-> sptr, ll_type |-> "none"]
make_target_op(sptr) == [ot_type |-> "OT_TARGET", tmps |-> NULL, val |-> sptr, ll_type |-> "none"]
make_constval32_op(v) == [ot_type |-> "OT_CONSTVAL", tmps |-> NULL, val |-> v, ll_type |-> "i32"]
make_undef_op(llt) == [ot_type |-> "OT_UNDEF", tmps |-> NULL, val |-> "", ll_type |-> llt]
gen_copy_op(op) == op

\* With(v, K): K applied to the value v, so that a result is computed once,
\* before what follows, and named in it, as a local variable of the C code
\* is (the test makes v be evaluated first)
With(v, K(_)) == IF v = v THEN K(v) ELSE K(v)

\* make_tmps(): a fresh TMPS with use_count 0 and no defining instruction
make_tmps(C) ==
  [S |-> [C EXCEPT !.tmps = Append(@, [use_count |-> 0, idef |-> NULL])],
   tmps |-> Len(C.tmps) + 1]

\* gen_instr(): allocate the instruction and make it the definition of tmps
gen_instr(C, instr_name, tmps, ll_type, operands) ==
  LET id == Len(C.insn) + 1
      rec == [i_name |-> instr_name, tmps |-> tmps, ll_type |-> ll_type,
              operands |-> operands, flags |-> {}, ilix |-> 0,
              ebb |-> 0]     \* ebb: ghost, the extended basic block it was appended in
  IN  [S |-> [C EXCEPT !.insn = Append(@, rec),
                       !.next = Append(@, NULL),
                       !.prev = Append(@, NULL),
                       !.tmps = IF tmps # NULL
                                THEN [@ EXCEPT ![tmps].idef = id] ELSE @],
       instr |-> id]

set_flags(C, instr, flags) == [C EXCEPT !.insn[instr].flags = @ \cup flags]

RECURSIVE AddUses(_, _, _)
\* use_count += d for every OT_TMP operand of the list
AddUses(tmps, operands, d) ==
  IF operands = <<>> THEN tmps
  ELSE LET o == Head(operands)
           t == IF o.ot_type = "OT_TMP"
                THEN [tmps EXCEPT ![o.tmps].use_count = @ + d] ELSE tmps
       IN  AddUses(t, Tail(operands), d)

\* a variant that leaves the use counts of the operands as they are
ad_instr_uses_not_counted(C, ilix, instr) ==
  [C EXCEPT !.insn[instr].ilix = ilix,
            !.next = IF C.Instructions # NULL THEN [@ EXCEPT ![C.last_instr] = instr] ELSE @,
            !.prev = IF C.Instructions # NULL THEN [@ EXCEPT ![instr] = C.last_instr] ELSE @,
            !.Instructions = IF @ # NULL THEN @ ELSE instr,
            !.last_instr = instr,
            !.insn[instr].ebb = C.ebb,
            !.insn[instr].flags = IF C.new_ebb THEN @ \cup {"STARTEBB"} ELSE @,
            !.list = Append(@, instr),
            !.new_ebb = FALSE]

\* next and prev hold the links of the instructions, Instructions the head
\* of the list and last_instr (llvm_info.last_instr) its tail; list is the
\* same chain as a sequence, which the walks of the list go by
ad_instr(C, ilix, instr) ==
  [C EXCEPT !.insn[instr].ilix = ilix,
            !.next = IF C.Instructions # NULL THEN [@ EXCEPT ![C.last_instr] = instr] ELSE @,
            !.prev = IF C.Instructions # NULL THEN [@ EXCEPT ![instr] = C.last_instr] ELSE @,
            !.Instructions = IF @ # NULL THEN @ ELSE instr,
            !.last_instr = instr,
            !.insn[instr].ebb = C.ebb,
            !.insn[instr].flags = IF C.new_ebb THEN @ \cup {"STARTEBB"} ELSE @,
            !.tmps = AddUses(@, C.insn[instr].operands, 1),
            !.list = Append(@, instr),
            !.new_ebb = FALSE]

\* ghost: remember that the lowering of ilix returned temporary tmps taken
\* from instruction src (NULL when the value was freshly computed)
Note(C, kind, ilix, tmps, src) ==
  [C EXCEPT !.log = Append(@, [kind |-> kind, ilix |-> ilix, tmps |-> tmps,
                               src |-> src, ebb |-> C.ebb, n |-> Len(C.insn)])]

same_op(op1, op2) ==
  IF op1.ot_type # op2.ot_type THEN FALSE
  ELSE CASE op1.ot_type = "OT_TMP" -> op1.tmps = op2.tmps
         [] op1.ot_type = "OT_VAR" -> op1.val = op2.val
         [] op1.ot_type = "OT_CONSTVAL" -> op1.val = op2.val
         [] OTHER -> FALSE

RECURSIVE same_ops(_, _)
\* the operand-by-operand comparison loop of ad_csed_instr()
same_ops(ops1, ops2) ==
  IF ops1 = <<>> \/ ops2 = <<>> THEN ops1 = <<>> /\ ops2 = <<>>
  ELSE same_op(Head(ops1), Head(ops2)) /\ same_ops(Tail(ops1), Tail(ops2))

ENABLE_CSE_OPT(C) == cfg.opt >= 1 /\ ~C.killCSE
ENABLE_ENHANCED_CSE_OPT(C) == cfg.opt >= 2 /\ ~C.killCSE

\* the position at which a backward walk of the list from pos ends: the
\* nearest position not after pos at which Ends holds, or 0
WalkBack(pos, Ends(_)) ==
  LET ps == {p \in 1..pos : Ends(p)}
  IN  IF ps = {} THEN 0 ELSE CHOOSE p \in ps : \A q \in ps : q <= p

\* backward walk of ad_csed_instr(), at the instruction instr: a match, the
\* end of the walk ("stop"), or on to the one before ("go")
csed_scan_at(C, instr, instr_name, operands) ==
  IF instr.i_name = instr_name /\ same_ops(instr.operands, operands) THEN "match"
  ELSE IF instr.i_name \in {"I_SW", "I_INVOKE", "I_CALL"} THEN "stop"
  ELSE IF instr.i_name \in {"I_BR", "I_INDBR", "I_NONE"}
          /\ ~ENABLE_ENHANCED_CSE_OPT(C) THEN "stop"
  ELSE IF "STARTEBB" \in instr.flags THEN "stop"
  ELSE "go"

\* backward walk of ad_csed_instr() from list position pos; the matching
\* instruction, or NULL
csed_scan(C, pos, instr_name, operands) ==
  With([p \in 1..pos |-> csed_scan_at(C, C.insn[C.list[p]], instr_name, operands)],
       LAMBDA r :
  With(WalkBack(pos, LAMBDA p : r[p] # "go"), LAMBDA at :
    IF at # 0 /\ r[at] = "match" THEN C.list[at] ELSE NULL))

ad_csed_instr(C, instr_name, ilix, ll_type, operands, flags, do_cse) ==
  With(IF do_cse /\ ENABLE_CSE_OPT(C) /\ ~C.new_ebb
       THEN csed_scan(C, Len(C.list), instr_name, operands) ELSE NULL, LAMBDA found :
    IF found # NULL
    THEN [S |-> Note(C, "instr", ilix, C.insn[found].tmps, found),
          op |-> make_tmp_op(C.insn[found].ll_type, C.insn[found].tmps)]
    ELSE With(make_tmps(C), LAMBDA t :
         With(gen_instr(t.S, instr_name, t.tmps, ll_type, operands), LAMBDA g :
           [S |-> ad_instr(set_flags(g.S, g.instr, flags), ilix, g.instr),
            op |-> make_tmp_op(ll_type, t.tmps)])))

(***************************************************************************)
(* The CSE list: one entry per ILI that is the operand of a CSE ILI.       *)
(* build_csed_list() is run over every ILT of the routine before the first *)
(* block is lowered, so the entries exist throughout.                      *)
(***************************************************************************)
CsedSet == {ILI_OPND(i, 1) : i \in {j \in IlixSet : is_cseili_opcode(ILI_OPC(j))}}

get_csed_operand(ilix) == ilix \in CsedSet

set_csed_operand(C, ilix, operand) ==
  IF ~get_csed_operand(ilix) THEN C
  ELSE IF operand.tmps # NULL
       THEN [C EXCEPT !.csed[ilix] = make_tmp_op(operand.ll_type, operand.tmps)]
       ELSE [C EXCEPT !.csed[ilix] = operand]

\* a variant that leaves the CSE list as it is
clear_csed_list_keep(C) == C

clear_csed_list(C) ==
  [C EXCEPT !.csed = [i \in CsedSet |-> make_operand],
            !.count = [i \in IlixSet |-> IF i \in CsedSet THEN 0 ELSE @[i]]]

ILI_COUNT_incr(C, ilix) == [C EXCEPT !.count[ilix] = @ + 1]

(***************************************************************************)
(* Bitcasts and addresses.                                                 *)
(***************************************************************************)
\* backward walk of make_bitcast(), at the instruction instr: a match, the
\* end of the walk ("stop"), or on to the one before ("go")
bitcast_scan_at(instr, cast_op, rslt_type) ==
  IF instr.i_name \in {"I_BR", "I_INDBR", "I_NONE"} THEN "stop"
  ELSE IF instr.i_name = "I_BITCAST" /\ same_op(cast_op, instr.operands[1])
          /\ strict_match(rslt_type, instr.ll_type)
       THEN "match"
  ELSE IF "STARTEBB" \in instr.flags THEN "stop"
  ELSE "go"

\* backward walk of make_bitcast(); the reusable I_BITCAST, or NULL
bitcast_scan(C, pos, cast_op, rslt_type) ==
  With([p \in 1..pos |-> bitcast_scan_at(C.insn[C.list[p]], cast_op, rslt_type)],
       LAMBDA r :
  With(WalkBack(pos, LAMBDA p : r[p] # "go"), LAMBDA at :
    IF at # 0 /\ r[at] = "match" THEN C.list[at] ELSE NULL))

\* a variant that never looks for an earlier bitcast
bitcast_may_scan_never(C) == FALSE

\* make_bitcast() guards its walk by ENABLE_CSE_OPT only
bitcast_may_scan(C) == ENABLE_CSE_OPT(C)

make_bitcast(C, cast_op, rslt_type) ==
  With(IF cast_op.ot_type = "OT_TMP" THEN C.tmps[cast_op.tmps].idef ELSE NULL, LAMBDA idef :
    IF strict_match(cast_op.ll_type, rslt_type)
    THEN [S |-> C, op |-> gen_copy_op(cast_op)]
    ELSE IF idef # NULL /\ C.insn[idef].i_name = "I_BITCAST"
            /\ strict_match(C.insn[idef].operands[1].ll_type, rslt_type)
    THEN [S |-> C, op |-> gen_copy_op(C.insn[idef].operands[1])]
    ELSE With(IF bitcast_may_scan(C)
              THEN bitcast_scan(C, Len(C.list), cast_op, rslt_type) ELSE NULL, LAMBDA found :
      IF found # NULL
      THEN [S |-> Note(C, "bitcast", 0, C.insn[found].tmps, found),
            op |-> make_tmp_op(rslt_type, C.insn[found].tmps)]
      ELSE With(make_tmps(C), LAMBDA t :
           With(gen_instr(t.S, "I_BITCAST", t.tmps, rslt_type, <<cast_op>>), LAMBDA g :
             [S |-> ad_instr(g.S, 0, g.instr), op |-> make_tmp_op(rslt_type, t.tmps)]))))

\* convert_int_size(): an extension or a truncation, through ad_csed_instr();
\* the temporary it makes first is left unused
convert_int_size(C, ilix, convert_op, rslt_type) ==
  LET size1 == ll_type_int_bits(convert_op.ll_type)
      size2 == ll_type_int_bits(rslt_type)
  IN  IF size1 = size2 THEN [S |-> C, op |-> convert_op]
      ELSE With(make_tmps(C), LAMBDA new_tmps :
             ad_csed_instr(new_tmps.S, IF size1 < size2 THEN "I_SEXT" ELSE "I_TRUNC",
                           ilix, rslt_type, <<convert_op>>, {}, TRUE))

gen_sptr(sptr) == make_var_op(sptr)

\* the map from an ILI to the temporary of the operand it was last lowered to
getTempMap(C, ilix) == C.tempsMap[ilix]
setTempMap(C, ilix, op) == [C EXCEPT !.tempsMap[ilix] = op.tmps]

\* gen_base_addr_operand() for an address constant of a symbol: the symbol,
\* bitcast when the pointee type expected differs from the symbol's
gen_base_addr_operand(C, ilix, expected_type) ==
  With(gen_sptr(ILI_OPND(ilix, 1)), LAMBDA operand :
  With(IF expected_type # "none" /\ ~strict_match(expected_type, operand.ll_type)
       THEN make_bitcast(C, operand, expected_type)
       ELSE [S |-> C, op |-> operand], LAMBDA r :
    [S |-> setTempMap(ILI_COUNT_incr(set_csed_operand(r.S, ilix, r.op), ilix), ilix, r.op),
     op |-> r.op]))

gen_address_operand(C, addr_op, nme, llt_expected, msz_type) ==
  With(IF llt_expected # "none" THEN llt_expected ELSE make_ptr_lltype(msz_type), LAMBDA llt :
  With(gen_base_addr_operand(C, addr_op, llt), LAMBDA r :
    [S |-> ILI_COUNT_incr(set_csed_operand(r.S, addr_op, r.op), addr_op), op |-> r.op]))

(***************************************************************************)
(* Load reuse.                                                             *)
(***************************************************************************)
\* a variant that keeps an ordering flag of its own for consume
ll_instr_flags_from_memory_order_consume(mo) ==
  CASE mo = "MO_RELAXED" -> {"ATOMIC_MONOTONIC_FLAG"}
    [] mo = "MO_CONSUME" -> {"ATOMIC_CONSUME_FLAG"}
    [] mo = "MO_ACQUIRE" -> {"ATOMIC_ACQUIRE_FLAG"}
    [] mo = "MO_RELEASE" -> {"ATOMIC_RELEASE_FLAG"}
    [] mo = "MO_ACQ_REL" -> {"ATOMIC_ACQ_REL_FLAG"}
    [] mo = "MO_SEQ_CST" -> {"ATOMIC_SEQ_CST_FLAG"}

\* the default case falls through to MO_RELAXED after its assertion
ll_instr_flags_from_memory_order(mo) ==
  CASE mo \in {"MO_CONSUME", "MO_ACQUIRE"} -> {"ATOMIC_ACQUIRE_FLAG"}
    [] mo = "MO_RELEASE" -> {"ATOMIC_RELEASE_FLAG"}
    [] mo = "MO_ACQ_REL" -> {"ATOMIC_ACQ_REL_FLAG"}
    [] mo = "MO_SEQ_CST" -> {"ATOMIC_SEQ_CST_FLAG"}
    [] OTHER -> {"ATOMIC_MONOTONIC_FLAG"}

\* the orderings an atomic ILI can carry
MemoryOrders ==
  {"MO_RELAXED", "MO_CONSUME", "MO_ACQUIRE", "MO_RELEASE", "MO_ACQ_REL", "MO_SEQ_CST"}

\* memory_order(ilix): the ordering operand of the atomic ILI; the operand
\* MO_CFG stands for the ordering this routine's atomic operations were given
memory_order(ilix) ==
  LET mo == IF ILI_OPC(ilix) = "IL_FENCE" THEN ILI_OPND(ilix, 1) ELSE ILI_OPND(ilix, 4)
  IN  IF mo = "MO_CFG" THEN cfg.mo ELSE mo

\* cmpxchg_memory_order(ilix).failure
cmpxchg_memory_order_failure(ilix) == cfg.mo_fail

\* atomic_info(ilix).scope: the synchronization scope this routine's atomic
\* operations were given
atomic_info_scope(ilix) == cfg.scope

ll_instr_flags_for_memory_order_and_scope(ilix) ==
  ll_instr_flags_from_memory_order(memory_order(ilix))
    \cup (IF atomic_info_scope(ilix) = "SS_SINGLETHREAD"
          THEN {"ATOMIC_SINGLETHREAD_FLAG"} ELSE {})

\* ldst_instr_flags_from_dtype(): the natural alignment of the type accessed,
\* kept in the flags as log2 of the bytes; a type of unknown alignment has
\* none
ldst_instr_flags_from_dtype(t) ==
  CASE t \in {"float", "i32", "cmplx"} -> {"LDST_LOGALIGN_2"}
    [] t = "i64" -> {"LDST_LOGALIGN_3"}
    [] t = "i16" -> {"LDST_LOGALIGN_1"}
    [] OTHER -> {}

\* LDST_BYTEALIGN(flags): the alignment in bytes, 0 when the flags hold none
LDST_BYTEALIGN(flags) ==
  IF "LDST_LOGALIGN_3" \in flags THEN 8
  ELSE IF "LDST_LOGALIGN_2" \in flags THEN 4
  ELSE IF "LDST_LOGALIGN_1" \in flags THEN 2 ELSE 0

ATOMIC_MEM_ORD_FLAGS ==
  {"ATOMIC_MONOTONIC_FLAG", "ATOMIC_ACQUIRE_FLAG", "ATOMIC_RELEASE_FLAG",
   "ATOMIC_ACQ_REL_FLAG", "ATOMIC_SEQ_CST_FLAG"}

\* the failure ordering of a cmpxchg sits in a field of its own
TO_CMPXCHG_MEMORDER_FAIL(flags) == {"FAIL_" \o f : f \in flags}
FROM_CMPXCHG_MEMORDER_FAIL(flags) ==
  {f \in ATOMIC_MEM_ORD_FLAGS : ("FAIL_" \o f) \in flags}

IL_HAS_FENCE(opc) ==
  opc \in {"IL_ATOMICSTSP", "IL_ATOMICRMWI", "IL_FENCE", "IL_ATOMICLDI", "IL_CMPXCHGI"}

\* a variant that lets a load move up over every ordering
can_move_load_up_over_any_fence(instr) == TRUE

can_move_load_up_over_fence(instr) ==
  instr.flags \cap {"ATOMIC_ACQUIRE_FLAG", "ATOMIC_ACQ_REL_FLAG",
                    "ATOMIC_SEQ_CST_FLAG"} = {}

\* the names entry an instruction's ILI carries in operand 3; ILI 0 is the
\* null ILI, whose operands are 0, the unknown names entry
instr_nme(instr) == IF instr.ilix = 0 THEN "nme_unk" ELSE ILI_OPND(instr.ilix, 3)

\* enhanced_conflict(): x, y and z are distinct scalars; u may overlap x
enhanced_conflict(nm1, nm2) ==
  IF nm1 = nm2 THEN "SAME"
  ELSE IF "nme_unk" \in {nm1, nm2} \/ {nm1, nm2} = {"nme_x", "nme_u"}
       THEN "CONFLICT" ELSE "NOCONFLICT"

\* a variant that lets a possibly-same location pass whatever flg.depchk is
conflict_blocks_same_only(c) == c = "SAME"

\* the test at check_conflict: in find_load_cse()
conflict_blocks(c) == c = "SAME" \/ (cfg.depchk /\ c # "NOCONFLICT")

\* a variant that takes no store for the store to ld_nme
del_store_scan_at_no_store(instr, ld_nme) ==
  IF "STARTEBB" \in instr.flags THEN "start" ELSE "go"

\* first loop of find_load_cse(), at the instruction instr: a store to
\* ld_nme, the start of the extended basic block, or on to the one before
del_store_scan_at(instr, ld_nme) ==
  IF instr.i_name = "I_STORE" /\ instr.ilix # 0 /\ ld_nme = ILI_OPND(instr.ilix, 3)
  THEN "store"
  ELSE IF "STARTEBB" \in instr.flags THEN "start"
  ELSE "go"

\* first loop of find_load_cse(): the nearest store to ld_nme (del) or, when
\* the start of the extended basic block comes first, the position at which
\* the second loop stops (bound)
del_store_scan(C, pos, ld_nme) ==
  With([p \in 1..pos |-> del_store_scan_at(C.insn[C.list[p]], ld_nme)], LAMBDA r :
  With(WalkBack(pos, LAMBDA p : r[p] # "go"), LAMBDA at :
    IF at = 0 THEN [del |-> NULL, bound |-> 0]
    ELSE IF r[at] = "store" THEN [del |-> C.list[at], bound |-> 0]
    ELSE [del |-> NULL,
          bound |-> IF C.insn[C.list[at]].i_name # "I_NONE" THEN at ELSE at - 1]))

\* a variant in which no call stops the walk
call_blocks_never(instr) == FALSE

\* the I_INVOKE/I_CALL case of find_load_cse(): a call without the fast-call
\* marker ends the walk
call_blocks(instr) == "FAST_CALL" \notin instr.flags

\* second loop of find_load_cse(), at the instruction of position pos: what
\* the walk ends on, or that it goes on ("go")
load_scan_at(C, pos, ilix, load_op, llt) ==
  LET id == C.list[pos]
      instr == C.insn[id]
      none == [kind |-> "none", src |-> NULL]
      go == [kind |-> "go", src |-> NULL]
      chk == IF conflict_blocks(enhanced_conflict(ILI_OPND(ilix, 2), instr_nme(instr)))
             THEN none ELSE go
  IN  IF instr.ilix = ilix
      THEN IF same_op(instr.operands[1], load_op)
           THEN [kind |-> "load", src |-> id] ELSE none
      ELSE CASE instr.i_name \in {"I_LOAD", "I_CMPXCHG", "I_ATOMICRMW", "I_FENCE"} ->
                  IF ~can_move_load_up_over_fence(instr) THEN none
                  ELSE IF instr.i_name = "I_LOAD" THEN go ELSE chk
             [] instr.i_name = "I_STORE" ->
                  IF instr.ilix = 0 THEN none
                  ELSE IF IL_TYPE(ILI_OPC(instr.ilix)) # "ILTY_STORE" THEN none
                  ELSE IF ILI_OPND(ilix, 1) = ILI_OPND(instr.ilix, 2)
                  THEN IF match_types(instr.operands[1].ll_type, llt) # "MATCH_OK"
                       THEN none
                       ELSE IF ~same_op(instr.operands[2], load_op) THEN none
                       ELSE [kind |-> "store", src |-> id]
                  ELSE chk
             [] instr.i_name \in {"I_INVOKE", "I_CALL"} ->
                  IF call_blocks(instr) THEN none ELSE go
             [] instr.i_name \in {"I_NONE", "I_BR", "I_INDBR"} ->
                  IF ~ENABLE_ENHANCED_CSE_OPT(C) THEN none ELSE go
             [] OTHER -> go

\* second loop of find_load_cse(), from position pos back to bound: what the
\* walk ends on
load_scan(C, pos, bound, ilix, load_op, llt) ==
  With([p \in 1..pos |-> IF p > bound THEN load_scan_at(C, p, ilix, load_op, llt)
                         ELSE [kind |-> "go", src |-> NULL]], LAMBDA r :
  With(WalkBack(pos, LAMBDA p : r[p].kind # "go"), LAMBDA at :
    IF at = 0 THEN [kind |-> "none", src |-> NULL] ELSE r[at]))

find_load_cse(C, ilix, load_op, llt) ==
  IF C.new_ebb \/ ilix = 0 \/ IL_TYPE(ILI_OPC(ilix)) # "ILTY_LOAD"
     \/ ILI_OPND(ilix, 2) = "NME_VOL"
  THEN [S |-> C, found |-> FALSE, op |-> make_operand]
  ELSE With(del_store_scan(C, Len(C.list), ILI_OPND(ilix, 2)), LAMBDA d :
       With(IF d.del # NULL
            THEN [C EXCEPT !.insn[d.del].flags = @ \ {"DELETABLE"}] ELSE C, LAMBDA C1 :
       With(load_scan(C1, Len(C1.list), d.bound, ilix, load_op, llt), LAMBDA r :
           CASE r.kind = "load" ->
                  [S |-> Note(C1, "load", ilix, C1.insn[r.src].tmps, r.src),
                   found |-> TRUE,
                   op |-> make_tmp_op(C1.insn[r.src].ll_type, C1.insn[r.src].tmps)]
             [] r.kind = "store" ->
                  [S |-> Note(IF r.src = d.del THEN C ELSE C1, "store", ilix,
                              C.insn[r.src].operands[1].tmps, r.src),
                   found |-> TRUE,
                   op |-> gen_copy_op(C.insn[r.src].operands[1])]
             [] OTHER -> [S |-> C1, found |-> FALSE, op |-> make_operand])))

make_load(C, ilix, load_op, rslt_type, flags) ==
  With(IF ENABLE_CSE_OPT(C) THEN find_load_cse(C, ilix, load_op, rslt_type)
       ELSE [S |-> C, found |-> FALSE, op |-> make_operand], LAMBDA f :
    IF f.found THEN [S |-> f.S, op |-> f.op]
    ELSE With(make_tmps(f.S), LAMBDA t :
         With(gen_instr(t.S, "I_LOAD", t.tmps, rslt_type, <<load_op>>), LAMBDA g :
           [S |-> ad_instr(set_flags(g.S, g.instr, flags), ilix, g.instr),
            op |-> make_tmp_op(rslt_type, t.tmps)])))

(***************************************************************************)
(* Expression lowering.                                                    *)
(***************************************************************************)
make_type_from_opc(opc) ==
  CASE opc \in {"IL_FMUL", "IL_FADD", "IL_FCJMPZ"} -> "float"
    [] OTHER -> "i32"

\* gen_return_operand(): the routine returns float and has no return symbol
gen_return_operand == make_undef_op("float")

\* a variant in which a CSE ILI always lowers its operand again
csed_hit_never(C, csed_ilix) == FALSE

\* the test of the IL_CSE case: has the shared ILI been lowered already?
csed_hit(C, csed_ilix) == C.count[csed_ilix] # 0

RECURSIVE gen_llvm_expr(_, _, _)
RECURSIVE gen_llvm_cmpxchg(_, _)
RECURSIVE gen_llvm_cmpxchg_component(_, _, _)
RECURSIVE gen_binary_expr(_, _, _)
RECURSIVE gen_cmplx_mul(_, _, _)

gen_llvm_atomicrmw_expr(C, ilix) ==
  LET instr_type == make_type_from_msz(ILI_OPC(ilix))
      flags == ll_instr_flags_for_memory_order_and_scope(ilix)
                 \cup {"ATOMIC_ADD_FLAG"}
  IN  With(gen_llvm_expr(C, ILI_OPND(ilix, 2), make_ptr_lltype(instr_type)), LAMBDA r1 :
      With(gen_llvm_expr(r1.S, ILI_OPND(ilix, 1), instr_type), LAMBDA r2 :
        ad_csed_instr(r2.S, "I_ATOMICRMW", ilix, instr_type, <<r1.op, r2.op>>,
                      flags, FALSE)))

\* the first switch of gen_binary_expr(): the flags of the instruction
nsw_flags(opc) ==
  IF opc \in {"IL_VMUL", "IL_IMUL", "IL_KMUL", "IL_VSUB", "IL_ISUB", "IL_KSUB",
              "IL_VADD", "IL_IADD", "IL_KADD", "IL_VLSHIFTV", "IL_VLSHIFTS",
              "IL_LSHIFT", "IL_KLSHIFT", "IL_VNEG", "IL_INEG", "IL_KNEG"}
  THEN {"NOSIGNEDWRAP"} ELSE {}

gen_binary_expr(C, ilix, itype) ==
  LET instr_type == make_type_from_opc(ILI_OPC(ilix))
  IN  With(gen_llvm_expr(C, ILI_OPND(ilix, 1), instr_type), LAMBDA l :
      With(gen_llvm_expr(l.S, ILI_OPND(ilix, 2), instr_type), LAMBDA r :
        ad_csed_instr(r.S, itype, ilix, instr_type, <<l.op, r.op>>,
                      nsw_flags(ILI_OPC(ilix)), TRUE)))

\* cmpxchg_loc(ilix): the ILI of the address the cmpxchg works on
cmpxchg_loc(ilix) == ILI_OPND(ilix, 2)

gen_llvm_cmpxchg(C, ilix) ==
  LET tmps == getTempMap(C, ilix)
      elt == make_type_from_msz(ILI_OPC(ilix))
      aggr_type == "{" \o elt \o ",i1}"
      flags == ll_instr_flags_for_memory_order_and_scope(ilix)
                 \cup TO_CMPXCHG_MEMORDER_FAIL(
                        ll_instr_flags_from_memory_order(cmpxchg_memory_order_failure(ilix)))
  IN  IF tmps # NULL
      THEN [S |-> C, op |-> make_tmp_op(C.insn[C.tmps[tmps].idef].ll_type, tmps)]
      ELSE With(gen_llvm_expr(C, cmpxchg_loc(ilix), make_ptr_lltype(elt)), LAMBDA op1 :
           With(gen_llvm_expr(op1.S, ILI_OPND(ilix, 5), elt), LAMBDA op2 :
           With(gen_llvm_expr(op2.S, ILI_OPND(ilix, 1), elt), LAMBDA op3 :
             ad_csed_instr(op3.S, "I_CMPXCHG", ilix, aggr_type,
                           <<op1.op, op2.op, op3.op>>, flags, FALSE))))

gen_extract_value_ll(C, aggr, aggr_ty, elt_ty, idx) ==
  With(make_tmps(C), LAMBDA t :
  With(gen_instr(t.S, "I_EXTRACTVAL", t.tmps, aggr_ty,
                 <<aggr, make_constval32_op(IF idx = 0 THEN "0" ELSE "1")>>), LAMBDA g :
    [S |-> ad_instr(g.S, 0, g.instr), op |-> make_tmp_op(elt_ty, t.tmps)]))

gen_llvm_cmpxchg_component(C, ilix, idx) ==
  With(gen_llvm_expr(C, ILI_OPND(ilix, 1), "none"), LAMBDA ll_cmpxchg :
    gen_extract_value_ll(ll_cmpxchg.S, ll_cmpxchg.op, ll_cmpxchg.op.ll_type,
                         IF idx = 0 THEN make_type_from_msz(ILI_OPC(ILI_OPND(ilix, 1)))
                         ELSE "i1", idx))

gen_extract_value(C, aggr, aggr_dtype, elt_dtype, idx) ==
  gen_extract_value_ll(C, aggr, make_lltype_from_dtype(aggr_dtype),
                       make_lltype_from_dtype(elt_dtype), idx)

gen_eval_cmplx_value(C, ilix, dtype) ==
  gen_llvm_expr(C, ilix, make_lltype_from_dtype(dtype))

\* a variant that puts every element in field 0
gen_insert_value_at_zero(C, aggr, elem, index) ==
  ad_csed_instr(C, "I_INSERTVAL", 0, aggr.ll_type,
                <<aggr, elem, make_constval32_op("0")>>, {}, FALSE)

gen_insert_value(C, aggr, elem, index) ==
  ad_csed_instr(C, "I_INSERTVAL", 0, aggr.ll_type,
                <<aggr, elem, make_constval32_op(IF index = 0 THEN "0" ELSE "1")>>,
                {}, FALSE)

\* gen_cmplx_mul(), the operands: c1, c2 and their components a, bi, c, di
gen_cmplx_mul_operands(C, ilix, dtype, elt_dt) ==
  With(gen_eval_cmplx_value(C, ILI_OPND(ilix, 1), dtype), LAMBDA c1 :
  With(gen_eval_cmplx_value(c1.S, ILI_OPND(ilix, 2), dtype), LAMBDA c2 :
  With(gen_extract_value(c2.S, c1.op, dtype, elt_dt, 0), LAMBDA a :
  With(gen_extract_value(a.S, gen_copy_op(c1.op), dtype, elt_dt, 1), LAMBDA bi :
  With(gen_extract_value(bi.S, c2.op, dtype, elt_dt, 0), LAMBDA c :
  With(gen_extract_value(c.S, gen_copy_op(c2.op), dtype, elt_dt, 1), LAMBDA di :
    [S |-> di.S, c1 |-> c1.op, a |-> a.op, bi |-> bi.op, c |-> c.op, di |-> di.op]))))))

\* gen_cmplx_mul(), r1 = (a * c) and r2 = (a * di), a extracted again for r2
gen_cmplx_mul_r1_r2(o, dtype, elt_dt, cmpnt_type) ==
  With(ad_csed_instr(o.S, "I_FMUL", 0, cmpnt_type, <<o.a, o.c>>, {}, TRUE), LAMBDA r1 :
  With(gen_extract_value(r1.S, gen_copy_op(o.c1), dtype, elt_dt, 0), LAMBDA a :
  With(ad_csed_instr(a.S, "I_FMUL", 0, cmpnt_type, <<a.op, o.di>>, {}, TRUE), LAMBDA r2 :
    [S |-> r2.S, r1 |-> r1.op, r2 |-> r2.op])))

\* gen_cmplx_mul(), r3 = (bi * c) and r4 = (bi * di), bi extracted again for r4
gen_cmplx_mul_r3_r4(C, o, dtype, elt_dt, cmpnt_type) ==
  With(ad_csed_instr(C, "I_FMUL", 0, cmpnt_type, <<o.bi, o.c>>, {}, TRUE), LAMBDA r3 :
  With(gen_extract_value(r3.S, gen_copy_op(o.c1), dtype, elt_dt, 1), LAMBDA bi :
  With(ad_csed_instr(bi.S, "I_FMUL", 0, cmpnt_type, <<bi.op, o.di>>, {}, TRUE), LAMBDA r4 :
    [S |-> r4.S, r3 |-> r3.op, r4 |-> r4.op])))

\* gen_cmplx_mul(), the result: real = r1 - r4, imag = r2 + r3, both
\* inserted in an undefined value of the complex type
gen_cmplx_mul_result(C, r1, r2, r3, r4, dtype, cmpnt_type) ==
  With(ad_csed_instr(C, "I_FSUB", 0, cmpnt_type, <<r1, r4>>, {}, TRUE), LAMBDA real :
  With(ad_csed_instr(real.S, "I_FADD", 0, cmpnt_type, <<r2, r3>>, {}, TRUE), LAMBDA imag :
  With(gen_insert_value(imag.S, make_undef_op(make_lltype_from_dtype(dtype)),
                        real.op, 0), LAMBDA res :
    gen_insert_value(res.S, res.op, imag.op, 1))))

\* gen_cmplx_mul(): (a + bi) * (c + di); the operand list of each
\* instruction is the pair linked through ->next when it is created
gen_cmplx_mul(C, ilix, dtype) ==
  LET elt_dt == "DT_FLOAT"
      cmpnt_type == make_lltype_from_dtype(elt_dt)
  IN  With(gen_cmplx_mul_operands(C, ilix, dtype, elt_dt), LAMBDA o :
      With(gen_cmplx_mul_r1_r2(o, dtype, elt_dt, cmpnt_type), LAMBDA p :
      With(gen_cmplx_mul_r3_r4(p.S, o, dtype, elt_dt, cmpnt_type), LAMBDA q :
        gen_cmplx_mul_result(q.S, p.r1, p.r2, q.r3, q.r4, dtype, cmpnt_type))))

gen_llvm_expr(C, ilix, expected_type) ==
  LET opc == ILI_OPC(ilix)
      csed_ilix == ILI_OPND(ilix, 1)
  IN  With(
           CASE opc = "IL_EXIT" -> [S |-> C, op |-> gen_return_operand]
             [] opc = "IL_ACON" -> gen_base_addr_operand(C, ilix, expected_type)
             [] opc \in {"IL_LDSP", "IL_LD"} ->
                  With(gen_address_operand(C, ILI_OPND(ilix, 1), ILI_OPND(ilix, 2),
                                           "none", make_type_from_msz(opc)), LAMBDA a :
                    make_load(a.S, ilix, a.op, sub_type(a.op.ll_type),
                              ldst_instr_flags_from_dtype(make_type_from_msz(opc))))
             \* the source passes the data type number DT_CMPLX where the load's
             \* flags are expected; which flag bits that number sets is not
             \* known from the source, and none is modelled
             [] opc = "IL_LDSCMPLX" ->
                  With(gen_address_operand(C, ILI_OPND(ilix, 1), ILI_OPND(ilix, 2),
                                           make_ptr_lltype(expected_type), "none"), LAMBDA a :
                    make_load(a.S, ilix, a.op, sub_type(a.op.ll_type), {}))
             [] opc = "IL_SCMPLXMUL" -> gen_cmplx_mul(C, ilix, "DT_CMPLX")
             [] opc = "IL_ICON" ->
                  [S |-> C, op |-> make_constval32_op(ILI_OPND(ilix, 1))]
             [] opc = "IL_FADD" -> gen_binary_expr(C, ilix, "I_FADD")
             [] opc \in {"IL_IADD", "IL_UIADD"} -> gen_binary_expr(C, ilix, "I_ADD")
             [] opc = "IL_FMUL" -> gen_binary_expr(C, ilix, "I_FMUL")
             [] opc = "IL_ATOMICRMWI" -> gen_llvm_atomicrmw_expr(C, ilix)
             [] opc = "IL_ATOMICLDI" ->
                  With(gen_address_operand(C, ILI_OPND(ilix, 1), ILI_OPND(ilix, 2),
                                           "none", make_type_from_msz(opc)), LAMBDA a :
                    make_load(a.S, ilix, a.op, sub_type(a.op.ll_type),
                              ll_instr_flags_for_memory_order_and_scope(ilix)
                                \cup ldst_instr_flags_from_dtype(make_type_from_msz(opc))))
             [] opc = "IL_CMPXCHG_OLDI" -> gen_llvm_cmpxchg_component(C, ilix, 0)
             [] opc = "IL_CMPXCHGI" -> gen_llvm_cmpxchg(C, ilix)
             [] is_cseili_opcode(opc) ->
                  IF ~csed_hit(C, csed_ilix)
                  THEN With(gen_llvm_expr(C, csed_ilix, expected_type), LAMBDA m :
                         [S |-> Note(m.S, "cse_miss", csed_ilix, m.op.tmps, NULL),
                          op |-> m.op])
                  ELSE [S |-> Note(C, "cse_hit", csed_ilix, C.csed[csed_ilix].tmps, NULL),
                        op |-> gen_copy_op(C.csed[csed_ilix])],
         LAMBDA r :
      With(ILI_COUNT_incr(set_csed_operand(r.S, ilix, r.op), ilix), LAMBDA C1 :
      With(IF ilix \in CsedSet THEN Note(C1, "ref", ilix, r.op.tmps, NULL) ELSE C1,
           LAMBDA C2 :
      With(IF expected_type = "none" \/ strict_match(expected_type, r.op.ll_type)
           THEN [S |-> C2, op |-> r.op]
           ELSE IF ll_type_int_bits(r.op.ll_type) # 0 /\ ll_type_int_bits(expected_type) # 0
           THEN convert_int_size(C2, ilix, r.op, expected_type)
           ELSE make_bitcast(C2, r.op, expected_type), LAMBDA res :
        [S |-> setTempMap(res.S, ilix, res.op), op |-> res.op]))))

\* the IL_FCJMPZ case and process_cc: condition code, value, zero
gen_cc_operands(C, ilix) ==
  LET cc == [ot_type |-> "OT_CC", tmps |-> NULL, val |-> "LLCCF_OEQ", ll_type |-> "float"]
      zero == [ot_type |-> "OT_CONSTVAL", tmps |-> NULL, val |-> "0.0", ll_type |-> "float"]
  IN  With(gen_llvm_expr(C, ILI_OPND(ilix, 1), "float"), LAMBDA v :
        [S |-> ILI_COUNT_incr(v.S, ilix), ops |-> <<cc, v.op, zero>>])

\* ll_abi_from_call_site(): the ABI descriptor of a call, here a property of
\* the callee: its return type (the register type when a struct comes back
\* in a register), whether a struct comes back through a hidden sret
\* argument, what is known of the prototype, and for the return value
\* (arg[0]) and every argument of the prototype its classification: kind,
\* type and the inreg mark.  LL_ARG_UNKNOWN is the kind of an argument the
\* classifier has not set.
ll_abi_from_call_site(sym) ==
  LET a(kind, type) == [kind |-> kind, type |-> type, inreg |-> FALSE]
      abi(ret, sret, missing, varargs, as_varargs, nargs) ==
        [ret |-> ret, sret |-> sret, missing_prototype |-> missing,
         is_varargs |-> varargs, call_as_varargs |-> as_varargs, nargs |-> nargs,
         is_fortran |-> TRUE, is_iso_c |-> FALSE,
         arg |-> [i \in 0..nargs |->
                   IF i = 0 THEN (IF sret THEN a("LL_ARG_INDIRECT", "pstruct")
                                  ELSE IF sym = "e" THEN a("LL_ARG_SIGNEXT", ret)
                                  ELSE a("LL_ARG_DIRECT", ret))
                   ELSE IF sym = "q" THEN a("LL_ARG_UNKNOWN", "float")
                   ELSE IF sym = "e" THEN [a("LL_ARG_DIRECT", "float") EXCEPT !.inreg = TRUE]
                   ELSE a("LL_ARG_DIRECT", "float")]]
  IN  CASE sym = "f" -> abi("float", FALSE, FALSE, FALSE, FALSE, 0)
        [] sym = "g" -> abi("void", FALSE, FALSE, FALSE, FALSE, 0)
        [] sym = "h" -> abi("i64", FALSE, FALSE, FALSE, FALSE, 0)
        [] sym = "s" -> abi("void", TRUE, FALSE, FALSE, FALSE, 0)
        [] sym = "k" -> abi("float", FALSE, TRUE, FALSE, FALSE, 0)
        [] sym = "m" -> abi("float", FALSE, TRUE, FALSE, TRUE, 0)
        [] sym = "v" -> abi("float", FALSE, FALSE, TRUE, FALSE, 1)
        [] sym \in {"w", "q", "e"} -> abi("float", FALSE, FALSE, FALSE, FALSE, 1)

LL_ABI_HAS_SRET(abi) == abi.sret

\* ll_abi_return_type() of the callee
ll_abi_return_type(sym) == ll_abi_from_call_site(sym).ret

RECURSIVE arg_types(_)
\* the types of an operand list, as ll_create_function_type() spells them
arg_types(ops) ==
  IF ops = <<>> THEN ""
  ELSE Head(ops).ll_type \o (IF Tail(ops) = <<>> THEN "" ELSE "," \o arg_types(Tail(ops)))

\* make_function_type_from_args(): return type and the types of the operands
\* present
make_function_type_from_args(return_type, ops, is_varargs) ==
  return_type \o "(" \o arg_types(ops)
    \o (IF is_varargs THEN (IF ops = <<>> THEN "..." ELSE ",...") ELSE "") \o ")"

get_next_arg(arg_ili) == ILI_OPND(arg_ili, 2)

\* a variant that looks at the kind of the argument before it lowers it
gen_arg_operand_kind_checked(C, abi, abi_arg, arg_ili) ==
  IF abi_arg <= abi.nargs /\ abi.arg[abi_arg].kind = "LL_ARG_UNKNOWN"
  THEN [S |-> C, op |-> make_operand]
  ELSE gen_llvm_expr(C, ILI_OPND(arg_ili, 1),
                     IF abi_arg <= abi.nargs THEN abi.arg[abi_arg].type ELSE "float")

\* gen_arg_operand(): the operand of one argument of a call.  The routine
\* returns the operand before it reaches its switch on arg->kind, so that
\* neither that switch nor its default, interr("Unknown ABI argument
\* kind"), is ever run.  OPF_SRARG_TYPE, set on the operand of a byval
\* argument, is not kept: operands of the model have no flags.
gen_arg_operand(C, abi, abi_arg, arg_ili) ==
  LET arg_opc == ILI_OPC(arg_ili)
      value_ili == ILI_OPND(arg_ili, 1)
      dtype == IF arg_opc \in {"IL_GARGRET", "IL_GARG"} THEN ILI_OPND(arg_ili, 3)
               ELSE "DT_NONE"
      indirect_ili_value ==
        \/ arg_opc = "IL_GARGRET"
        \/ arg_opc = "IL_GARG" /\ dtype # "DT_CPTR" /\ ILI_OPC(value_ili) = "IL_ACON"
      missing == abi_arg > abi.nargs
      \* ll_abi_classify_arg_dtype() for an argument without a prototype
      arg == IF ~missing THEN abi.arg[abi_arg]
             ELSE IF abi.is_fortran /\ ~abi.is_iso_c /\ indirect_ili_value
             THEN [kind |-> "LL_ARG_INDIRECT", type |-> "pi8", inreg |-> FALSE]
             ELSE [kind |-> "LL_ARG_DIRECT",
                   type |-> IF dtype = "DT_STRUCT" THEN "struct" ELSE "float",
                   inreg |-> FALSE]
      arg_type == arg.type       \* make_lltype_from_abi_arg(arg)
  IN  IF /\ arg.kind # "LL_ARG_BYVAL" /\ indirect_ili_value
         /\ (ILI_OPND(arg_ili, 4) # 0 \/ arg.kind = "LL_ARG_COERCE")
      THEN With(gen_llvm_expr(C, value_ili, make_ptr_lltype(arg_type)), LAMBDA operand :
             ad_csed_instr(operand.S, "I_LOAD", 0, arg_type, <<operand.op>>,
                           ldst_instr_flags_from_dtype(dtype), FALSE))
      ELSE gen_llvm_expr(C, value_ili, arg_type)

RECURSIVE arg_loop(_, _, _, _, _)
\* the loop of gen_arg_operand_list() from argument abi_arg on
arg_loop(C, abi, abi_arg, max_abi_arg, arg_ili) ==
  IF (max_abi_arg # -1 /\ abi_arg > max_abi_arg) \/ ILI_OPC(arg_ili) = "IL_NULL"
  THEN [S |-> C, ops |-> <<>>]
  ELSE With(gen_arg_operand(C, abi, abi_arg, arg_ili), LAMBDA a :
       With(arg_loop(a.S, abi, abi_arg + 1, max_abi_arg, get_next_arg(arg_ili)), LAMBDA rest :
         [S |-> rest.S, ops |-> <<a.op>> \o rest.ops]))

\* gen_arg_operand_list(); max_abi_arg is -1 (~0u in the source) when there
\* is no limit
gen_arg_operand_list(C, abi, first_arg_ili) ==
  LET max_abi_arg == IF ~abi.missing_prototype /\ ~abi.is_varargs
                     THEN abi.nargs ELSE -1
  IN  IF LL_ABI_HAS_SRET(abi)
      THEN With(gen_arg_operand(C, abi, 0, first_arg_ili), LAMBDA a :
           With(arg_loop(a.S, abi, 1, max_abi_arg, get_next_arg(first_arg_ili)), LAMBDA rest :
             [S |-> rest.S, ops |-> <<a.op>> \o rest.ops]))
      ELSE arg_loop(C, abi, 1, max_abi_arg,
                    IF ILI_OPC(first_arg_ili) = "IL_GARGRET"
                    THEN get_next_arg(first_arg_ili) ELSE first_arg_ili)

make_store(C, sop, address_op, flags) ==
  With(gen_instr(C, "I_STORE", NULL, "none", <<sop, address_op>>), LAMBDA g :
    ad_instr(set_flags(g.S, g.instr, flags), 0, g.instr))

\* a variant that leaves the value a call returned where it is
gargret_nothing(C, call, first_arg_ili) == C

\* end of gen_call_expr(): the ILI hold a GARGRET but the ABI returns in
\* registers, so the returned value is stored to the GARGRET address
gargret_store(C, call, first_arg_ili) ==
  With(gen_llvm_expr(C, ILI_OPND(first_arg_ili, 1), make_ptr_lltype(C.insn[call].ll_type)),
       LAMBDA addr :
    make_store(addr.S, make_tmp_op(C.insn[call].ll_type, C.insn[call].tmps), addr.op, {}))

\* a variant that builds a type from the operands for every callee
call_func_type_any(abi, return_type, ops) ==
  make_function_type_from_args(return_type, ops, abi.call_as_varargs)

\* the alternative function type of a direct call in gen_call_expr(): built
\* from the operands when the prototype is missing, and otherwise unless the
\* callee is variadic; "none" is the null type
call_func_type(abi, return_type, ops) ==
  IF abi.missing_prototype \/ ~abi.is_varargs
  THEN make_function_type_from_args(return_type, ops, abi.call_as_varargs)
  ELSE "none"

gen_call_expr(C, ilix) ==
  LET sym == ILI_OPND(ilix, 1)
      first_arg_ili == ILI_OPND(ilix, 2)
      abi == ll_abi_from_call_site(sym)
      return_type == ll_abi_return_type(sym)
      callee_op == make_var_op(sym)
  IN  With(gen_arg_operand_list(C, abi, first_arg_ili), LAMBDA args :
      With(call_func_type(abi, return_type, args.ops), LAMBDA func_type :
      With(IF func_type # "none" /\ make_ptr_lltype(func_type) # callee_op.ll_type
           THEN make_bitcast(args.S, callee_op, make_ptr_lltype(func_type))
           ELSE [S |-> args.S, op |-> callee_op], LAMBDA callee :
      With(IF return_type = "void" THEN [S |-> callee.S, tmps |-> NULL]
           ELSE make_tmps(callee.S), LAMBDA t :
        LET id == Len(t.S.insn) + 1
            rec == [i_name |-> "I_CALL", tmps |-> t.tmps, ll_type |-> return_type,
                    operands |-> <<callee.op>> \o args.ops,
                    flags |-> {"NOUNWIND_CALL_FLAG"}, ilix |-> 0, ebb |-> 0]
        IN  With(ad_instr([t.S EXCEPT !.insn = Append(@, rec),
                                           !.next = Append(@, NULL),
                                           !.prev = Append(@, NULL)], ilix, id), LAMBDA C1 :
              IF ILI_OPC(first_arg_ili) = "IL_GARGRET" /\ ~LL_ABI_HAS_SRET(abi)
              THEN gargret_store(C1, id, first_arg_ili) ELSE C1)))))

(***************************************************************************)
(* Statements.                                                             *)
(***************************************************************************)
\* getlab(): a fresh compiler-created label
getlab(C) == [S |-> [C EXCEPT !.nlab = @ + 1], sptr |-> "G" \o ToString(C.nlab + 1)]

\* make_stmt(STMT_LABEL, sptr, ...).  The label's symbol number kept in the
\* instruction's ilix field is distinct from every ILI index; it is left 0.
make_stmt_LABEL(C, sptr) ==
  With(gen_instr([C EXCEPT !.last_stmt_is_branch = FALSE], "I_NONE", NULL, "none",
                 <<make_label_op(sptr)>>), LAMBDA g :
    ad_instr(g.S, 0, g.instr))

\* head of make_stmt(): a statement after a branch gets a label of its own
make_stmt_head(C) ==
  IF C.last_stmt_is_branch
  THEN With(getlab(C), LAMBDA l :
         [make_stmt_LABEL(l.S, l.sptr) EXCEPT !.last_stmt_is_branch = FALSE])
  ELSE [C EXCEPT !.last_stmt_is_branch = FALSE]

make_stmt_RET(C, ilix) ==
  With(gen_llvm_expr([make_stmt_head(C) EXCEPT !.last_stmt_is_branch = TRUE],
                     ilix, "float"), LAMBDA r :
  With(gen_instr(r.S, "I_RET", NULL, "none", <<r.op>>), LAMBDA g :
    ad_instr(g.S, ilix, g.instr)))

make_stmt_CALL(C, ilix) == gen_call_expr(make_stmt_head(C), ilix)

\* the switch table of a multi-way jump (SWELG and switch_base[].next, .val,
\* .clabel) and its default label (DEFLABG)
SWEL(switch_sptr) ==
  LET el(val, clabel) == [val |-> val, clabel |-> clabel]
  IN  CASE switch_sptr = "sw2" -> <<el("1", "L1"), el("2", "L2")>>
        [] switch_sptr = "sw3" -> <<el("3", "L1"), el("1", "L2"), el("2", "L1")>>
        [] switch_sptr = "sw0" -> <<>>
DEFLABG(switch_sptr) == IF switch_sptr = "sw2" THEN "Ld" ELSE "L1"

make_constsptr_op(v) ==
  [ot_type |-> "OT_CONSTSPTR", tmps |-> NULL, val |-> v, ll_type |-> "i64"]

RECURSIVE switch_elements(_, _)
\* the loop of gen_switch() over the switch elements: a value and a target
\* operand for each
switch_elements(els, is_64bit) ==
  IF els = <<>> THEN <<>>
  ELSE <<IF is_64bit THEN make_constsptr_op(Head(els).val)
         ELSE make_constval32_op(Head(els).val),
         make_target_op(Head(els).clabel)>> \o switch_elements(Tail(els), is_64bit)

gen_switch(C, ilix) ==
  LET is_64bit == ILI_OPC(ilix) = "IL_JMPMK"
      switch_type == IF is_64bit THEN "i64" ELSE "i32"
      switch_sptr == ILI_OPND(ilix, 3)
  IN  With(gen_llvm_expr(C, ILI_OPND(ilix, 1), switch_type), LAMBDA sel :
      With(gen_instr(sel.S, "I_SW", NULL, "none",
                     <<sel.op, make_target_op(DEFLABG(switch_sptr))>>
                       \o switch_elements(SWEL(switch_sptr), is_64bit)), LAMBDA g :
        ad_instr(g.S, ilix, g.instr)))

make_stmt_BR(C, ilix, next_bih_label) ==
  With(make_stmt_head(C), LAMBDA C0 :
    IF ILI_OPC(ilix) = "IL_JMP"
    THEN With(gen_instr([C0 EXCEPT !.last_stmt_is_branch = TRUE], "I_BR", NULL,
                        "none", <<make_target_op(ILI_OPND(ilix, 1))>>), LAMBDA g :
           ad_instr(g.S, ilix, g.instr))
    ELSE IF ILI_OPC(ilix) \in {"IL_JMPM", "IL_JMPMK"}
    THEN [gen_switch(C0, ilix) EXCEPT !.last_stmt_is_branch = TRUE]
    ELSE With(make_tmps(C0), LAMBDA t :
         With(gen_cc_operands(t.S, ilix), LAMBDA cc :
         With(gen_instr(cc.S, "I_FCMP", t.tmps, "i1", cc.ops), LAMBDA cmp :
         With(ad_instr(cmp.S, ilix, cmp.instr), LAMBDA C1 :
         With(IF next_bih_label # "" THEN [S |-> C1, sptr |-> next_bih_label]
              ELSE getlab(C1), LAMBDA l :
         With(gen_instr(l.S, "I_BR", NULL, "none",
                        <<make_tmp_op("i1", t.tmps), make_target_op(ILI_OPND(ilix, 3)),
                          make_target_op(l.sptr)>>), LAMBDA br :
         With(ad_instr(br.S, ilix, br.instr), LAMBDA C2 :
           IF next_bih_label = "" THEN make_stmt_LABEL(C2, l.sptr) ELSE C2))))))))

cancel_store(ilix, op_ili, addr_ili) ==
  LET o == IF is_cseili_opcode(ILI_OPC(op_ili)) THEN ILI_OPND(op_ili, 1) ELSE op_ili
  IN  IL_TYPE(ILI_OPC(o)) = "ILTY_LOAD" /\ ILI_OPND(o, 1) = addr_ili

make_stmt_ST(C, ilix, deletable) ==
  LET nme == ILI_OPND(ilix, 3)
      lhs_ili == ILI_OPND(ilix, 2)
      rhs_ili == ILI_OPND(ilix, 1)
      ty == make_type_from_msz(ILI_MSZ_OF_ST(ilix))
      store_flags == ldst_instr_flags_from_dtype(ty)
                       \cup (IF nme = "NME_VOL" THEN {"VOLATILE_FLAG"} ELSE {})
                       \cup (IF IL_HAS_FENCE(ILI_OPC(ilix))
                             THEN ll_instr_flags_for_memory_order_and_scope(ilix)
                             ELSE {})
                       \cup (IF deletable THEN {"DELETABLE"} ELSE {})
  IN  With(make_stmt_head(C), LAMBDA C0 :
        IF cancel_store(ilix, rhs_ili, lhs_ili) THEN C0
        ELSE With(gen_llvm_expr(C0, rhs_ili, ty), LAMBDA op1 :
             With(gen_address_operand(op1.S, lhs_ili, nme, "none", ty), LAMBDA store_op :
             \* an integer value of another size than the element stored to
             \* is converted
             With(IF /\ is_ptr(store_op.op.ll_type)
                     /\ ll_type_int_bits(sub_type(store_op.op.ll_type)) # 0
                     /\ ll_type_int_bits(op1.op.ll_type) # 0
                     /\ ll_type_bytes(sub_type(store_op.op.ll_type))
                          # ll_type_bytes(op1.op.ll_type)
                  THEN convert_int_size(store_op.S, ilix, op1.op,
                                        sub_type(store_op.op.ll_type))
                  ELSE [S |-> store_op.S, op |-> op1.op], LAMBDA v :
             With(gen_instr(v.S, "I_STORE", NULL, "none",
                            <<v.op, store_op.op>>), LAMBDA g :
               ad_instr(set_flags(g.S, g.instr, store_flags), ilix, g.instr))))))

gen_llvm_fence_instruction(C, ilix) ==
  With(gen_instr(C, "I_FENCE", NULL, "none", <<>>), LAMBDA g :
    ad_instr(set_flags(g.S, g.instr, ll_instr_flags_for_memory_order_and_scope(ilix)),
             0, g.instr))

(***************************************************************************)
(* schedule(): the block loop.                                             *)
(***************************************************************************)
\* attributes of the routine's blocks (bih); block 1 is the entry block when
\* cfg.en (an entry block holding more than its ENTRY ILT), otherwise the
\* entry block is skipped and block 1 is the first block after it
BIH_EN(bih) == bih = 1 /\ cfg.en
BIH_LABEL(bih) == IF bih = cfg.lab THEN "L1" ELSE ""
BIH_TAIL(bih) == bih = cfg.tail
BIH_NEXT(bih) == IF bih < cfg.nblocks THEN bih + 1 ELSE 0
BIH_LAST(bih) == bih = cfg.nblocks

\* the parallel, critical-section and task marks of a block and its
\* do-not-merge mark: cfg names the blocks that carry each
BIH_PAR(bih) == bih \in cfg.par
BIH_CS(bih) == bih \in cfg.cs
BIH_TASK(bih) == bih \in cfg.task
BIH_NOMERGE(bih) == bih \in cfg.nomerge

\* a variant that merges whatever the do-not-merge marks say
merge_cond_nomerge_ignored(bih) ==
  LET bihnext == BIH_NEXT(bih)
  IN  ((cfg.opt = 1 /\ BIH_EN(bih)) \/ (cfg.opt >= 2 /\ ~BIH_TAIL(bih)))
      /\ bihnext # 0 /\ BIH_LABEL(bihnext) = ""
      /\ BIH_PAR(bihnext) = BIH_PAR(bih) /\ BIH_CS(bihnext) = BIH_CS(bih)
      /\ BIH_TASK(bihnext) = BIH_TASK(bih)

\* schedule(): the test that sets merge_next_block
merge_cond(bih) ==
  LET bihnext == BIH_NEXT(bih)
  IN  ((cfg.opt = 1 /\ BIH_EN(bih)) \/ (cfg.opt >= 2 /\ ~BIH_TAIL(bih)))
      /\ bihnext # 0 /\ BIH_LABEL(bihnext) = ""
      /\ BIH_PAR(bihnext) = BIH_PAR(bih) /\ BIH_CS(bihnext) = BIH_CS(bih)
      /\ BIH_TASK(bihnext) = BIH_TASK(bih)
      /\ ~BIH_NOMERGE(bih) /\ ~BIH_NOMERGE(bihnext)

\* state of schedule() before its block loop: the list holds the entry label
S0 ==
  LET C == [insn |-> <<>>, list |-> <<>>, tmps |-> <<>>, new_ebb |-> FALSE,
            csed |-> [i \in CsedSet |-> make_operand],
            count |-> [i \in IlixSet |-> 0],
            last_stmt_is_branch |-> FALSE, killCSE |-> FALSE,
            made_return |-> FALSE, nlab |-> 0, ebb |-> 0, log |-> <<>>,
            tempsMap |-> [i \in IlixSet |-> NULL],
            removed |-> <<>>,
            next |-> <<>>, prev |-> <<>>, Instructions |-> NULL, last_instr |-> NULL,
            expr_id |-> 0,
            \* the names get_intrinsic() has declared, and the list of
            \* external function declarations
            declared_intrinsics |-> {}, exfuncs |-> <<>>,
            \* ghost: the number of the routine, and what the routine before
            \* it had left when this one began
            routine |-> 1,
            left_behind |-> [listed |-> FALSE, cached |-> FALSE, named |-> FALSE]]
  IN  With(gen_instr(C, "I_NONE", NULL, "none", <<make_label_op("0")>>), LAMBDA g :
        ad_instr(g.S, 0, g.instr))

\* block layouts of a routine: number of blocks, which block carries the label
\* L1 (0: none), which is marked as a tail (0: none), whether block 1 is the
\* entry block
Shapes ==
  {c \in [nblocks : 1..MaxBlocks, lab : 0..MaxBlocks, tail : 0..MaxBlocks, en : BOOLEAN] :
     c.lab <= c.nblocks /\ c.tail <= c.nblocks}
OneBlock == {[nblocks |-> 1, lab |-> 0, tail |-> 0, en |-> FALSE]}

Configs(menus, opts, depchks, targets, fmas, shapes) ==
  {[opt |-> o, depchk |-> d, target |-> t, fma |-> f, menu |-> m,
    nblocks |-> sh.nblocks, lab |-> sh.lab, tail |-> sh.tail, en |-> sh.en,
    mo |-> "MO_SEQ_CST", mo_fail |-> "MO_SEQ_CST", scope |-> "SS_PROCESS",
    par |-> {}, cs |-> {}, task |-> {}, nomerge |-> {}] :
     o \in opts, d \in depchks, t \in targets, f \in fmas, m \in menus, sh \in shapes}

InitWith(cs) ==
  /\ cfg \in cs
  /\ pc = "lower"
  /\ S = S0
  /\ blk = [n |-> 0, merge |-> FALSE, closed |-> FALSE, nst |-> 0, mv |-> FALSE,
            joined |-> FALSE, base |-> 0]
  /\ out = <<>>

\* top of the loop body for the next block: label, new_ebb, merge_next_block
SchedBlock ==
  /\ pc = "lower"
  /\ BIH_NEXT(blk.n) # 0
  /\ LET bih == blk.n + 1
         sptr == BIH_LABEL(bih)
         C1 == IF ~BIH_EN(bih) /\ sptr # ""
               THEN make_stmt_LABEL(clear_csed_list(S), sptr) ELSE S
         C2 == IF blk.merge = FALSE
               THEN [C1 EXCEPT !.new_ebb = TRUE, !.ebb = @ + 1] ELSE C1
     IN  /\ S' = C2
         \* ghost: joined tells that the block goes on in the extended basic
         \* block of the one before, base is the last instruction made
         \* before the block
         /\ blk' = [blk EXCEPT !.n = bih, !.merge = merge_cond(bih), !.closed = FALSE,
                               !.mv = FALSE, !.joined = blk.merge,
                               !.base = Len(C2.insn)]
  /\ UNCHANGED <<cfg, pc, out>>

\* the dispatch on one ILT in the loop over the block's ILTs
lower_ilt(C, bih, ilix, delete) ==
  LET opc == ILI_OPC(ilix)
      bihnext == BIH_NEXT(bih)
  IN  CASE opc \in {"IL_JMP", "IL_FCJMPZ", "IL_JMPM", "IL_JMPMK"} ->
             make_stmt_BR(C, ilix, IF bihnext # 0 THEN BIH_LABEL(bihnext) ELSE "")
        [] IL_TYPE(opc) = "ILTY_STORE" ->
             make_stmt_ST(C, ilix, ENABLE_CSE_OPT(C) /\ delete)
        [] opc = "IL_JSR" -> make_stmt_CALL(C, ilix)
        [] opc = "IL_FENCE" -> gen_llvm_fence_instruction(C, ilix)
        [] is_mvili_opcode(opc) ->
             [make_stmt_RET(C, ILI_OPND(ilix, 1)) EXCEPT !.made_return = TRUE]
        [] OTHER ->
             IF BIH_LAST(bih) /\ ~C.made_return THEN make_stmt_RET(C, ilix) ELSE C

IsBranch(ilix) == ILI_OPC(ilix) \in {"IL_JMP", "IL_FCJMPZ", "IL_JMPM", "IL_JMPMK"}

\* one ILT of the current block is lowered
SchedIlt ==
  /\ pc = "lower"
  /\ blk.n >= 1
  /\ ~blk.closed
  /\ \E st \in cfg.menu \cup {[ilix |-> 29, delete |-> FALSE]} :
       /\ ILI_OPC(st.ilix) = "IL_EXIT" => BIH_LAST(blk.n)
       /\ ILI_OPC(st.ilix) # "IL_EXIT" => blk.nst < MaxStmts
       /\ IsBranch(st.ilix) => (cfg.lab # 0 /\ ~BIH_LAST(blk.n))
       /\ S' = lower_ilt(S, blk.n, st.ilix, st.delete)
       /\ blk' = [blk EXCEPT !.nst = IF ILI_OPC(st.ilix) = "IL_EXIT" THEN @ ELSE @ + 1,
                             !.closed = IsBranch(st.ilix) \/ ILI_OPC(st.ilix) = "IL_EXIT",
                             !.mv = @ \/ is_mvili_opcode(ILI_OPC(st.ilix))]
       /\ pc' = IF ILI_OPC(st.ilix) = "IL_EXIT" THEN "rewrite" ELSE "lower"
  /\ UNCHANGED <<cfg, out>>

(***************************************************************************)
(* The FMA rewrite.                                                        *)
(***************************************************************************)
fused_multiply_add_candidate(ilix) ==
  IF ILI_OPC(ilix) # "IL_FADD" THEN 0
  ELSE IF ILI_OPC(ILI_OPND(ilix, 1)) = "IL_FMUL" THEN ILI_OPND(ilix, 1)
  ELSE IF ILI_OPC(ILI_OPND(ilix, 2)) = "IL_FMUL" THEN ILI_OPND(ilix, 2)
  ELSE 0

\* the intrinsic chosen for IL_FADD with a plain multiply, per target
get_mac_name ==
  CASE cfg.target = "POWER" -> "@llvm.ppc.vsx.xsmaddasp"
    [] cfg.target = "X8664" -> "@llvm.x86.fma.vfmadd.ss"
    [] OTHER -> "@llvm.fma.f32"

fma_mult_has_mult_uses(C, multop) ==
  multop.tmps = NULL \/ C.tmps[multop.tmps].use_count > 1

\* update_external_function_declarations(): the declaration is handed to
\* the list of external function declarations (routine is a ghost: the
\* routine that asked)
update_external_function_declarations(C, decl, flags) ==
  [C EXCEPT !.exfuncs = Append(@, [func_def |-> decl.name, type |-> decl.type,
                                   flags |-> flags, routine |-> C.routine])]

\* a variant that does not look the name up
get_intrinsic_undeclared(C, name, func_type) ==
  [S |-> [update_external_function_declarations(
            C, [name |-> name, type |-> func_type], {"EXF_INTRINSIC"})
            EXCEPT !.declared_intrinsics = @ \cup {name}],
   op |-> [ot_type |-> "OT_CALL", tmps |-> NULL, val |-> name, ll_type |-> "pfn"]]

\* get_intrinsic(): the declaration is asked for when the name is not in
\* llvm_info.declared_intrinsics (no name here begins with "asm ", for which
\* nothing is declared); the operand stands for the function
get_intrinsic(C, name, func_type) ==
  [S |-> IF name \in C.declared_intrinsics THEN C
         ELSE [update_external_function_declarations(
                 C, [name |-> name, type |-> func_type], {"EXF_INTRINSIC"})
                 EXCEPT !.declared_intrinsics = @ \cup {name}],
   op |-> [ot_type |-> "OT_CALL", tmps |-> NULL, val |-> name, ll_type |-> "pfn"]]

get_intrinsic_call_ops(C, name, return_type, args) ==
  With(get_intrinsic(C, name, make_function_type_from_args(return_type, args, FALSE)),
       LAMBDA i : [S |-> i.S, ops |-> <<i.op>> \o args])

gen_call_to_builtin(C, fname, params, return_ll_type, i_name) ==
  With(make_tmps(C), LAMBDA t :
  With(get_intrinsic_call_ops(t.S, fname, return_ll_type, params), LAMBDA o :
  With(gen_instr(o.S, i_name, t.tmps, return_ll_type, o.ops), LAMBDA g :
    [S |-> ad_instr(set_flags(g.S, g.instr, {"CALL_INTRINSIC_FLAG"}), 0, g.instr),
     op |-> make_tmp_op(return_ll_type, t.tmps)])))

gen_insert_vector(C, vop, sop, idx) ==
  With(make_tmps(C), LAMBDA t :
  With(gen_instr(t.S, "I_INSELE", t.tmps, vop.ll_type,
                 <<vop, sop, make_constval32_op(idx)>>), LAMBDA g :
    [S |-> ad_instr(g.S, 0, g.instr), op |-> make_tmp_op(vop.ll_type, t.tmps)]))

gen_extract_vector(C, vop, idx) ==
  With(make_tmps(C), LAMBDA t :
  With(gen_instr(t.S, "I_EXTELE", t.tmps, "float", <<vop, make_constval32_op(idx)>>),
       LAMBDA g :
    [S |-> ad_instr(g.S, 0, g.instr), op |-> make_tmp_op("float", t.tmps)]))

RECURSIVE x86_promote_to_vector(_, _, _)
x86_promote_to_vector(C, vTy, ops) ==
  IF ops = <<>> THEN [S |-> C, ops |-> <<>>]
  ELSE With(gen_insert_vector(C, make_undef_op(vTy), gen_copy_op(Head(ops)), "0"),
            LAMBDA i :
       With(x86_promote_to_vector(i.S, vTy, Tail(ops)), LAMBDA rest :
         [S |-> rest.S, ops |-> <<i.op>> \o rest.ops]))

\* position of an instruction in the list (0 when it is not linked)
IndexOf(list, id) ==
  LET ps == {p \in 1..Len(list) : list[p] = id}
  IN  IF ps = {} THEN 0 ELSE CHOOSE p \in ps : \A q \in ps : q <= p

\* a variant in which the rewritten add takes the new instruction's temporary
fma_result_tmps_new(C, oldAdd, newFma) == C.insn[newFma].tmps

\* overwrite_fma_add() copies every field of newFma but tmps: the rewritten
\* add keeps its own temporary
fma_result_tmps(C, oldAdd, newFma) == C.insn[oldAdd].tmps

\* overwrite_fma_add(): the instructions appended after position last are
\* unlinked; all but newFma are linked in before oldAdd; oldAdd takes over
\* newFma's fields but keeps its own tmps
overwrite_fma_add(C, oldAdd, newFma, last) ==
  LET run == SubSeq(C.list, last + 1, Len(C.list))
      before == SubSeq(run, 1, Len(run) - 1)
      head == SubSeq(C.list, 1, last)
      at == IndexOf(head, oldAdd)
      list2 == IF run[1] # newFma
               THEN SubSeq(head, 1, at - 1) \o before \o SubSeq(head, at, Len(head))
               ELSE head
      nf == C.insn[newFma]
      lastI == C.list[last]
      prev == C.prev[oldAdd]
      start == C.next[lastI]
      next1 == [C.next EXCEPT ![lastI] = NULL]
      prev1 == [C.prev EXCEPT ![start] = NULL]
      next2 == [next1 EXCEPT ![prev] = start]
      prev2 == [prev1 EXCEPT ![start] = prev]
      next3 == [next2 EXCEPT ![prev2[newFma]] = oldAdd]
      prev3 == [prev2 EXCEPT ![oldAdd] = prev2[newFma]]
  IN  [C EXCEPT !.list = list2,
                !.next = IF start # newFma THEN next3 ELSE next1,
                !.prev = IF start # newFma THEN prev3 ELSE prev1,
                !.insn[oldAdd] = [@ EXCEPT !.i_name = nf.i_name, !.ilix = nf.ilix,
                                           !.flags = nf.flags, !.ll_type = nf.ll_type,
                                           !.operands = nf.operands,
                                           !.tmps = fma_result_tmps(C, oldAdd, newFma)],
                !.tmps = AddUses(@, nf.operands, 100)]

\* a variant that fuses whatever the use count of the multiply
fma_allowed_always(C, l) == TRUE

\* the use-count test that lets maybe_generate_fma() go on to fuse
fma_allowed(C, l) == ~fma_mult_has_mult_uses(C, l)

maybe_generate_fma(C, ilix, insn) ==
  LET lhs_ili == ILI_OPND(ilix, 1)
      rhs_ili == ILI_OPND(ilix, 2)
      last == Len(C.list)
      binops == C.insn[insn].operands
      matches == fused_multiply_add_candidate(ilix)
      l == IF matches = lhs_ili THEN binops[1] ELSE binops[2]
      r == IF matches = lhs_ili THEN binops[2] ELSE binops[1]
      mul == C.tmps[l.tmps].idef
      l_l == C.insn[mul].operands[1]
      l_r == C.insn[mul].operands[2]
  IN  IF matches = 0 THEN C
      ELSE IF lhs_ili = rhs_ili THEN C
      ELSE IF ~fma_allowed(C, l) THEN C
      ELSE
        With([clear_csed_list(C) EXCEPT !.killCSE = TRUE,
                                        !.insn[mul].operands = <<l_l, l_r, r>>,
                                        !.tmps[l.tmps].use_count = @ - 1], LAMBDA C1 :
        With(IF cfg.target = "X8664"
             THEN x86_promote_to_vector(C1, "v4float", <<l_l, l_r, r>>)
             ELSE [S |-> C1, ops |-> <<l_l, l_r, r>>], LAMBDA v :
        With(gen_call_to_builtin(v.S, get_mac_name, v.ops,
                                 IF cfg.target = "X8664" THEN "v4float" ELSE "float",
                                 "I_PICALL"), LAMBDA call :
        With(IF cfg.target = "X8664"
             THEN gen_extract_vector(
                    [call.S EXCEPT !.tmps[call.op.tmps].use_count = @ + 1], call.op, "0")
             ELSE call, LAMBDA x :
        With([x.S EXCEPT !.tmps[x.op.tmps].use_count = @ + 1], LAMBDA C2 :
          [overwrite_fma_add(C2, insn, C2.tmps[x.op.tmps].idef, last)
             EXCEPT !.last_instr = C.last_instr, !.killCSE = FALSE])))))

\* the body of the loop of fma_rewrite() at instruction p
fma_visit(C, p) ==
  LET i == C.insn[p]
  IN  IF i.ilix # 0 /\ i.tmps # NULL /\ i.operands # <<>>
         /\ C.tmps[i.tmps].use_count > 0
      THEN maybe_generate_fma(C, i.ilix, p) ELSE C

RECURSIVE fma_walk(_, _, _, _)
\* the loop of fma_rewrite() over the instructions ids[lo..hi]: the loop goes
\* on at the instruction after the one it visited, and what a rewrite links
\* in comes before that one, so the loop visits the instructions that were
\* in the list when it began, in their order
fma_walk(C, ids, lo, hi) ==
  IF lo > hi THEN C
  ELSE IF lo = hi THEN fma_visit(C, ids[lo])
  ELSE With(fma_walk(C, ids, lo, (lo + hi) \div 2), LAMBDA C1 :
         fma_walk(C1, ids, (lo + hi) \div 2 + 1, hi))

fma_rewrite(C) == fma_walk(C, C.list, 1, Len(C.list))

(***************************************************************************)
(* Dead instruction removal.                                               *)
(***************************************************************************)
\* a variant that leaves the backward link of the following instruction
unlink_forward_only(C, instr) ==
  LET prev == C.prev[instr]
      next == C.next[instr]
  IN  [C EXCEPT !.last_instr = IF next # NULL THEN @ ELSE prev,
                !.next = IF prev # NULL THEN [@ EXCEPT ![prev] = next] ELSE @,
                !.Instructions = IF prev # NULL THEN @ ELSE next]

\* remove_instr(), the links: the neighbours are linked to each other, the
\* head and the tail follow
unlink(C, instr) ==
  LET prev == C.prev[instr]
      next == C.next[instr]
  IN  [C EXCEPT !.prev = IF next # NULL THEN [@ EXCEPT ![next] = prev] ELSE @,
                !.last_instr = IF next # NULL THEN @ ELSE prev,
                !.next = IF prev # NULL THEN [@ EXCEPT ![prev] = next] ELSE @,
                !.Instructions = IF prev # NULL THEN @ ELSE next]

remove_instr(C, pos) ==
  LET id == C.list[pos]
  IN  [unlink(C, id)
         EXCEPT !.list = SubSeq(@, 1, pos - 1) \o SubSeq(@, pos + 1, Len(@)),
                !.tmps = AddUses(@, C.insn[id].operands, -1),
                !.removed = Append(@, [id |-> id,
                                       use_count |-> IF C.insn[id].tmps # NULL
                                                     THEN C.tmps[C.insn[id].tmps].use_count
                                                     ELSE 0])]

\* a variant that does not keep atomic read-modify-write instructions
dce_exempt_calls_only(i_name) == i_name \in {"I_CALL", "I_INVOKE"}

\* the instruction kinds remove_dead_instrs() keeps whatever their use count
dce_exempt(i_name) == i_name \in {"I_CALL", "I_INVOKE", "I_ATOMICRMW"}

\* a variant that also takes a temporary with one use left for dead
dce_dead_one_use(C, instr) == instr.tmps # NULL /\ C.tmps[instr.tmps].use_count <= 1

\* the use-count test of remove_dead_instrs()
dce_dead(C, instr) == instr.tmps # NULL /\ C.tmps[instr.tmps].use_count <= 0

\* the body of the loop of remove_dead_instrs() at list position pos
dce_visit(C, pos) ==
  LET instr == C.insn[C.list[pos]]
  IN  IF instr.i_name = "I_STORE" /\ "DELETABLE" \in instr.flags
      THEN remove_instr(C, pos)
      ELSE IF ~dce_exempt(instr.i_name) /\ dce_dead(C, instr)
      THEN remove_instr(C, pos)
      ELSE C

RECURSIVE dce_walk(_, _, _)
\* the loop of remove_dead_instrs() from position hi back to position lo; a
\* removal leaves the positions before it as they are
dce_walk(C, lo, hi) ==
  IF lo > hi THEN C
  ELSE IF lo = hi THEN dce_visit(C, lo)
  ELSE With(dce_walk(C, (lo + hi) \div 2 + 1, hi), LAMBDA C1 :
         dce_walk(C1, lo, (lo + hi) \div 2))

remove_dead_instrs(C) == dce_walk(C, 1, Len(C.list))

\* schedule(): fma_rewrite() when scalar FMA generation is enabled
FmaRewrite ==
  /\ pc = "rewrite"
  /\ S' = IF cfg.fma THEN fma_rewrite(S) ELSE S
  /\ pc' = "dce"
  /\ UNCHANGED <<cfg, blk, out>>

\* schedule(): remove_dead_instrs() when ENABLE_CSE_OPT
RemoveDeadInstrs ==
  /\ pc = "dce"
  /\ S' = IF ENABLE_CSE_OPT(S)
          THEN With(remove_dead_instrs(S), LAMBDA C :
                 [C EXCEPT !.prev[C.Instructions] = NULL])
          ELSE S
  /\ pc' = "print"
  /\ UNCHANGED <<cfg, blk, out>>

(***************************************************************************)
(* write_instructions(): the text, one record per line printed.            *)
(*   k = "label": a label line; "br", "ret": terminators; "instr": other   *)
(***************************************************************************)
INSTR_IS_BRANCH(instr) == instr.i_name \in {"I_BR", "I_SW", "I_RET"}

\* a variant that never asks for a dummy label
dont_force_a_dummy_label_ever(C, pos) == TRUE

dont_force_a_dummy_label(C, pos) ==
  LET i_name == C.insn[C.list[pos]].i_name
  IN  \/ i_name = "I_NONE"
      \/ i_name = "I_BR" /\ pos < Len(C.list) /\ C.insn[C.list[pos + 1]].i_name = "I_NONE"

LineWith(k, id, name, synth, mods) ==
  [k |-> k, id |-> id, name |-> name, synth |-> synth, mods |-> mods]
Line(k, id, name, synth) == LineWith(k, id, name, synth, <<>>)

\* the default case reports an internal error and returns the empty string
get_atomic_memory_order_name(instr_flags) ==
  LET mo == instr_flags \cap ATOMIC_MEM_ORD_FLAGS
  IN  CASE mo = {"ATOMIC_MONOTONIC_FLAG"} -> "monotonic"
        [] mo = {"ATOMIC_ACQUIRE_FLAG"} -> "acquire"
        [] mo = {"ATOMIC_RELEASE_FLAG"} -> "release"
        [] mo = {"ATOMIC_ACQ_REL_FLAG"} -> "acq_rel"
        [] mo = {"ATOMIC_SEQ_CST_FLAG"} -> "seq_cst"
        [] OTHER -> ""

\* the tokens write_memory_order() prints
write_memory_order(instr) ==
  (IF "ATOMIC_SINGLETHREAD_FLAG" \in instr.flags THEN <<"singlethread">> ELSE <<>>)
    \o <<get_atomic_memory_order_name(instr.flags)>>

\* the tokens write_memory_order_and_alignment() prints
write_memory_order_and_alignment(instr) ==
  (IF instr.flags \cap ATOMIC_MEM_ORD_FLAGS # {} THEN write_memory_order(instr) ELSE <<>>)
    \o (IF LDST_BYTEALIGN(instr.flags) = 8 THEN <<"align 8">>
        ELSE IF LDST_BYTEALIGN(instr.flags) = 4 THEN <<"align 4">> ELSE <<>>)

RECURSIVE write_case_operands(_)
\* the loop of the I_SW case over the operands after the default label: one
\* operand, and the next one when there is one
write_case_operands(ops) ==
  IF ops = <<>> THEN <<>>
  ELSE IF Len(ops) = 1 THEN <<ops[1]>>
  ELSE <<ops[1], ops[2]>> \o write_case_operands(Tail(Tail(ops)))

\* a variant that prints the first case only
write_switch_operands_one_case(ops) ==
  <<ops[1], ops[2]>> \o write_case_operands(SubSeq(ops, 3, 4))

\* the operands the I_SW case prints: the selector, the default label, the
\* cases
write_switch_operands(ops) == <<ops[1], ops[2]>> \o write_case_operands(Tail(Tail(ops)))

\* what write_instructions() prints after the operands of an instruction
write_modifiers(instr) ==
  CASE instr.i_name \in {"I_LOAD", "I_STORE"} -> write_memory_order_and_alignment(instr)
    [] instr.i_name \in {"I_ATOMICRMW", "I_FENCE"} -> write_memory_order(instr)
    [] instr.i_name = "I_CMPXCHG" ->
         <<get_atomic_memory_order_name(instr.flags),
           get_atomic_memory_order_name(FROM_CMPXCHG_MEMORDER_FAIL(instr.flags))>>
    [] OTHER -> <<>>

\* llvm_instr_names[]: what is printed for the name of an arithmetic
\* instruction
llvm_instr_names(i_name) ==
  CASE i_name = "I_ADD" -> "add nsw"
    [] i_name = "I_FADD" -> "fadd"
    [] i_name = "I_SUB" -> "sub nsw"
    [] i_name = "I_FSUB" -> "fsub"
    [] i_name = "I_MUL" -> "mul nsw"
    [] i_name = "I_FMUL" -> "fmul"
    [] i_name = "I_SHL" -> "shl nsw"
    [] OTHER -> "none"

\* the BINOP case: the name from the table, and the fast-math marker of the
\* floating-point instructions (flg.ieee is not set); the flags of the
\* instruction are not looked at
write_binop_name(instr) ==
  <<llvm_instr_names(instr.i_name)>>
    \o (IF instr.i_name \in {"I_FADD", "I_FSUB", "I_FMUL", "I_FDIV", "I_FREM"}
        THEN <<"fast">> ELSE <<>>)

\* a variant that never prints a branch in front of a label
label_needs_no_branch(C, pos) == FALSE

\* the I_NONE case: is a branch to the label printed in front of it?
label_needs_branch(C, pos) ==
  pos = 1 \/ ~INSTR_IS_BRANCH(C.insn[C.list[pos - 1]])

\* the lines printed for the instruction at list position pos, and the value
\* forceLabel has afterwards
write_instr(C, pos, forceLabel) ==
  LET id == C.list[pos]
      instr == C.insn[id]
      i_name == instr.i_name
      force == forceLabel /\ ~dont_force_a_dummy_label(C, pos)
      dead == IF force THEN <<Line("label", 0, "L.dead", TRUE)>> ELSE <<>>
      prev == IF pos > 1 THEN C.insn[C.list[pos - 1]].i_name ELSE "none"
  IN  CASE i_name = "I_NONE" ->
             IF pos = 1 /\ instr.operands[1].val = "0"
             THEN [lines |-> dead, forceLabel |-> FALSE]
             ELSE [lines |-> dead
                       \o (IF label_needs_branch(C, pos)
                           THEN <<Line("br", id, instr.operands[1].val, TRUE)>> ELSE <<>>)
                       \o <<Line("label", id, instr.operands[1].val, FALSE)>>
                       \o (IF pos = Len(C.list)
                           THEN <<Line("ret", id, "default", TRUE)>> ELSE <<>>),
                   forceLabel |-> FALSE]
        [] i_name = "I_BR" ->
             IF prev \notin {"I_RET", "I_RESUME", "I_BR"}
             THEN [lines |-> dead \o <<Line("br", id, "", FALSE)>>, forceLabel |-> TRUE]
             ELSE [lines |-> dead, forceLabel |-> FALSE]
        [] i_name = "I_RET" ->
             [lines |-> dead \o <<Line("ret", id, "", FALSE)>>, forceLabel |-> TRUE]
        [] i_name = "I_SW" ->
             [lines |-> dead \o <<LineWith("instr", id, i_name, FALSE,
                                          write_switch_operands(instr.operands))>>,
              forceLabel |-> TRUE]
        [] i_name \in {"I_ADD", "I_FADD", "I_SUB", "I_FSUB", "I_MUL", "I_FMUL", "I_SHL"} ->
             [lines |-> dead \o <<LineWith("instr", id, i_name, FALSE,
                                          write_binop_name(instr))>>,
              forceLabel |-> FALSE]
        [] OTHER ->
             [lines |-> dead \o <<LineWith("instr", id, i_name, FALSE,
                                          write_modifiers(instr))>>,
              forceLabel |-> FALSE]

RECURSIVE write_from(_, _, _, _)
\* the loop of write_instructions() over the positions lo..hi: the lines, and
\* forceLabel after the last of them
write_from(C, lo, hi, forceLabel) ==
  IF lo > hi THEN [lines |-> <<>>, forceLabel |-> forceLabel]
  ELSE IF lo = hi THEN write_instr(C, lo, forceLabel)
  ELSE With(write_from(C, lo, (lo + hi) \div 2, forceLabel), LAMBDA w :
       With(write_from(C, (lo + hi) \div 2 + 1, hi, w.forceLabel), LAMBDA v :
         [lines |-> w.lines \o v.lines, forceLabel |-> v.forceLabel]))

write_instructions(C) == write_from(C, 1, Len(C.list), TRUE).lines

\* print_tmp_name(): a temporary takes the next number of expr_id when its
\* name is printed first; the temporaries named are the results and the
\* operands of the instructions in the list
print_tmp_names(C) ==
  LET named == {t \in 1..Len(C.tmps) :
                  \E p \in 1..Len(C.list) :
                    \/ C.insn[C.list[p]].tmps = t
                    \/ \E k \in 1..Len(C.insn[C.list[p]].operands) :
                         /\ C.insn[C.list[p]].operands[k].ot_type = "OT_TMP"
                         /\ C.insn[C.list[p]].operands[k].tmps = t}
  IN  [C EXCEPT !.expr_id = @ + Cardinality(named)]

WriteInstructions ==
  /\ pc = "print"
  /\ out' = write_instructions(S)
  /\ S' = print_tmp_names(S)
  /\ pc' = "done"
  /\ UNCHANGED <<cfg, blk>>

(***************************************************************************)
(* schedule() is called once for every routine of the file.                *)
(***************************************************************************)
MaxRoutines == 2

\* a variant that lets the numbering of temporaries run on
routine_start_expr_id_kept(C) == C.expr_id

\* schedule(): expr_id = 0
routine_start_expr_id(C) == 0

\* the start of schedule() up to its block loop, from the state C the routine
\* before left: the list, the CSE list, the temporaries map, made_return,
\* last_stmt_is_branch and expr_id are set anew and the entry label is
\* appended; new_ebb and killCSE are not assigned.  schedule() ends with
\* init_once = FALSE, so that cg_llvm_init() runs in full and
\* llvm_info.declared_intrinsics is a new, empty table; the list of external
\* function declarations is kept.  The instructions and the
\* ILI of the routine before are gone with its storage, and the ILI of the
\* new routine have not been counted.
schedule_start(C) ==
  LET G == [S0 EXCEPT !.insn = <<>>, !.list = <<>>, !.next = <<>>, !.prev = <<>>,
                      !.Instructions = NULL, !.last_instr = NULL,
                      !.new_ebb = C.new_ebb, !.killCSE = C.killCSE,
                      !.exfuncs = C.exfuncs,
                      !.routine = C.routine + 1,
                      !.left_behind =
                         [listed |-> Len(C.list) > 1,
                          cached |-> \E i \in CsedSet : C.csed[i].ot_type # "OT_NONE",
                          named |-> C.expr_id > 0]]
  IN  With(gen_instr(G, "I_NONE", NULL, "none", <<make_label_op("0")>>), LAMBDA g :
        [ad_instr(g.S, 0, g.instr) EXCEPT !.expr_id = routine_start_expr_id(C)])

(***************************************************************************)
(* Specifications.                                                         *)
(***************************************************************************)
Next == SchedBlock \/ SchedIlt \/ FmaRewrite \/ RemoveDeadInstrs \/ WriteInstructions

St(ilix, delete) == [ilix |-> ilix, delete |-> delete]

Targets == {"GENERIC", "POWER", "X8664"}

\* control flow and returns: branches, a value return, a store, a call
Init ==
  InitWith(Configs({{St(26, FALSE), St(27, FALSE), St(28, FALSE), St(16, FALSE),
                     St(24, FALSE)}},
                   {0, 1}, {FALSE}, {"GENERIC"}, {FALSE}, Shapes))
Spec == Init /\ [][Next]_vars

\* expression reuse: loads, shared nodes, stores to the same location, a call
InitCSE ==
  InitWith(Configs({{St(16, FALSE), St(17, FALSE), St(18, FALSE), St(30, FALSE),
                     St(24, FALSE)}},
                   {0, 1, 2}, {FALSE}, {"GENERIC"}, {FALSE}, Shapes))
SpecCSE == InitCSE /\ [][Next]_vars

\* load reuse: stores, an atomic store, an atomic update, fences
InitLoad ==
  InitWith(Configs({{St(16, FALSE), St(18, FALSE), St(20, FALSE), St(33, FALSE),
                     St(34, FALSE), St(35, FALSE), St(23, FALSE)}},
                   {1, 2}, BOOLEAN, {"GENERIC"}, {FALSE}, OneBlock))
SpecLoad == InitLoad /\ [][Next]_vars

\* multiply-add fusion and dead instruction removal
InitFma ==
  InitWith(Configs({{St(15, FALSE), St(15, TRUE), St(19, FALSE), St(32, FALSE),
                     St(24, FALSE), St(23, TRUE)}},
                   {0, 1}, {FALSE}, Targets, BOOLEAN, OneBlock))
SpecFma == InitFma /\ [][Next]_vars

\* calls: a struct returned in a register or through a hidden argument,
\* callees without a prototype, variadic callees, a read of the buffer
InitCall ==
  InitWith(Configs({{St(38, FALSE), St(39, FALSE), St(42, FALSE), St(43, FALSE),
                     St(44, FALSE), St(45, FALSE), St(47, FALSE), St(48, FALSE),
                     St(24, FALSE)}},
                   {0, 1}, {FALSE}, {"GENERIC"}, {FALSE}, OneBlock))
SpecCall == InitCall /\ [][Next]_vars

Scopes == {"SS_PROCESS", "SS_SINGLETHREAD"}
FailureOrders == {"MO_RELAXED", "MO_CONSUME"}

\* atomic operations: a load, a store, an update, a fence and a compare and
\* exchange, under every ordering and scope
InitAtomic ==
  InitWith({[c EXCEPT !.mo = m, !.mo_fail = f, !.scope = sc] :
              c \in Configs({{St(50, FALSE), St(51, FALSE), St(53, FALSE), St(54, FALSE),
                               St(57, FALSE)}},
                             {1}, {FALSE}, {"GENERIC"}, {FALSE}, OneBlock),
              m \in MemoryOrders, f \in FailureOrders, sc \in Scopes})
SpecAtomic == InitAtomic /\ [][Next]_vars

\* type reconciliation: an integer store through a float address, a float
\* read of an integer, a widened integer, a call
InitConv ==
  InitWith(Configs({{St(21, FALSE), St(30, FALSE), St(59, FALSE), St(24, FALSE)}},
                   {0, 1, 2}, {FALSE}, {"GENERIC"}, {FALSE}, Shapes))
SpecConv == InitConv /\ [][Next]_vars

\* multi-way jumps of no, two and three cases, 32-bit and 64-bit, among
\* stores and jumps
InitSwitch ==
  InitWith(Configs({{St(60, FALSE), St(61, FALSE), St(62, FALSE), St(16, FALSE),
                     St(27, FALSE)}},
                   {0, 1}, {FALSE}, {"GENERIC"}, {FALSE}, Shapes))
SpecSwitch == InitSwitch /\ [][Next]_vars

\* complex multiplies among a complex copy, a scalar multiply-add and a call,
\* with and without the FMA rewrite
InitCmplx ==
  InitWith(Configs({{St(68, FALSE), St(70, FALSE), St(71, FALSE), St(15, FALSE),
                     St(24, FALSE)}},
                   {0, 1, 2}, {FALSE}, {"GENERIC"}, BOOLEAN, OneBlock))
SpecCmplx == InitCmplx /\ [][Next]_vars

\* blocks with and without the marks that keep them apart
BlockMarks ==
  {[par |-> {}, cs |-> {}, task |-> {}, nomerge |-> {}],
   [par |-> {2}, cs |-> {}, task |-> {}, nomerge |-> {}],
   [par |-> {}, cs |-> {1}, task |-> {}, nomerge |-> {}],
   [par |-> {}, cs |-> {}, task |-> {2}, nomerge |-> {}],
   [par |-> {}, cs |-> {}, task |-> {}, nomerge |-> {1}],
   [par |-> {}, cs |-> {}, task |-> {}, nomerge |-> {2}]}
InitMerge ==
  InitWith({[c EXCEPT !.par = m.par, !.cs = m.cs, !.task = m.task,
                      !.nomerge = m.nomerge] :
              c \in Configs({{St(16, FALSE)}}, {0, 1, 2}, {FALSE}, {"GENERIC"},
                            {FALSE}, Shapes),
              m \in BlockMarks})
SpecMerge == InitMerge /\ [][Next]_vars

\* the routines of a file, one after the other: stores with shared
\* expressions, a multiply-add, a call
RoutineConfigs ==
  Configs({{St(15, FALSE), St(17, FALSE), St(24, FALSE)}},
          {0, 1}, {FALSE}, {"GENERIC"}, BOOLEAN, OneBlock)

\* schedule() is entered for the next routine once the one before is printed
Schedule ==
  /\ pc = "done"
  /\ S.routine < MaxRoutines
  /\ cfg' \in RoutineConfigs
  /\ S' = schedule_start(S)
  /\ blk' = [n |-> 0, merge |-> FALSE, closed |-> FALSE, nst |-> 0, mv |-> FALSE,
             joined |-> FALSE, base |-> 0]
  /\ out' = <<>>
  /\ pc' = "lower"

NextRoutines == Next \/ Schedule
InitRoutines == InitWith(RoutineConfigs)
SpecRoutines == InitRoutines /\ [][NextRoutines]_vars

(***************************************************************************)
(* Properties.                                                             *)
(***************************************************************************)
Ebbs == 0..MaxBlocks
LogIdx == 1..Len(S.log)

\* a log entry for node n made while extended basic block e was lowered
RefOf(i, e, n) == S.log[i].ilix = n /\ S.log[i].ebb = e

\* i records a lowering of the node itself that a CSE ILI asked for
ByMiss(i) ==
  /\ i < Len(S.log)
  /\ S.log[i + 1].kind = "cse_miss"
  /\ S.log[i + 1].ilix = S.log[i].ilix

\* the node was reached directly / through a CSE ILI
Direct(i) == S.log[i].kind = "ref" /\ ~ByMiss(i)
CseRef(i) == S.log[i].kind \in {"cse_hit", "cse_miss"}

Refs(e, n) == {i \in LogIdx : RefOf(i, e, n) /\ (Direct(i) \/ CseRef(i))}
Computing(e, n) ==
  {p \in 1..Len(S.list) : S.insn[S.list[p]].ilix = n /\ S.insn[S.list[p]].ebb = e}

RECURSIVE NmesOf(_)
\* the names of the locations node n loads from
NmesOf(n) ==
  IF ILI_OPC(n) = "IL_LDSP" THEN {ILI_OPND(n, 2)}
  ELSE UNION {NmesOf(LinkOpnds(n)[k]) : k \in 1..Len(LinkOpnds(n))}

\* a store of block e to a location that node n may read
AliasingStore(e, n) ==
  \E p \in 1..Len(S.list) :
    LET instr == S.insn[S.list[p]]
    IN  /\ instr.i_name = "I_STORE" /\ instr.ebb = e
        /\ \E nm \in NmesOf(n) : enhanced_conflict(instr_nme(instr), nm) # "NOCONFLICT"

OneResult(e, n) ==
  /\ Cardinality(Computing(e, n)) <= 1
  /\ \A i, j \in Refs(e, n) : S.log[i].tmps = S.log[j].tmps

Listed == {S.list[p] : p \in 1..Len(S.list)}
TmpOperands(id) ==
  {S.insn[id].operands[k].tmps :
     k \in {j \in 1..Len(S.insn[id].operands) : S.insn[id].operands[j].ot_type = "OT_TMP"}}
DefinedInList(t) == \E id \in Listed : S.insn[id].tmps = t
RemovedDefs == {k \in 1..Len(S.removed) : S.insn[S.removed[k].id].tmps # NULL}

\* C2: an instruction defining a temporary is deleted only when the use count
\* of that temporary is zero, and once remove_dead_instrs has run (after the
\* FMA rewrite or without it) every temporary used as an operand by a listed
\* instruction is defined by a listed instruction
C2_DceKeepsDefs ==
  /\ \A k \in RemovedDefs : S.removed[k].use_count = 0
  /\ pc \in {"print", "done"} =>
       \A id \in Listed : \A t \in TmpOperands(id) : DefinedInList(t)

\* the FMA rewrite fused an add, dead instruction removal then deleted an
\* instruction defining a temporary, and listed instructions still use temporaries
C2_Witness ==
  /\ pc = "done"
  /\ RemovedDefs # {}
  /\ \E id \in Listed : S.insn[id].i_name = "I_PICALL" /\ TmpOperands(id) # {}

IsTmp(op) == op.ot_type = "OT_TMP"
\* listed instructions one of whose operands is the temporary t
UsersOf(t) == {id \in Listed : t \in TmpOperands(id)}
Definer(t) == CHOOSE id \in Listed : S.insn[id].tmps = t

\* listed add instructions with operand k the result of a listed multiply
MulAdds ==
  {ak \in Listed \X {1, 2} :
     LET add == S.insn[ak[1]]
     IN  /\ add.i_name = "I_FADD"
         /\ IsTmp(add.operands[ak[2]])
         /\ DefinedInList(add.operands[ak[2]].tmps)
         /\ S.insn[Definer(add.operands[ak[2]].tmps)].i_name = "I_FMUL"}

\* in the next state, instruction id is a call of an FMA intrinsic on a, b, c
FusedCall(id, a, b, c) ==
  LET f == S'.insn[id]
  IN  /\ f.i_name = "I_PICALL" /\ Len(f.operands) = 4
      /\ f.operands[1].val = get_mac_name
      /\ same_op(f.operands[2], a) /\ same_op(f.operands[3], b) /\ same_op(f.operands[4], c)

\* C3 as stated: an add of a multiply that no other instruction uses becomes
\* one fused instruction on a, b, c in its place; otherwise it is untouched
C3_AsStated ==
  [][pc = "rewrite" /\ cfg.fma =>
       \A ak \in MulAdds :
         LET id == ak[1]
             m == S.insn[id].operands[ak[2]].tmps
             mul == S.insn[Definer(m)]
             c == S.insn[id].operands[3 - ak[2]]
         IN  IF UsersOf(m) = {id}
             THEN FusedCall(id, mul.operands[1], mul.operands[2], c) /\ S'.list = S.list
             ELSE S'.insn[id] = S.insn[id]]_vars

\* the instructions fma_rewrite() hands on to the use-count test: their ILI
\* is an add with a multiply ILI as one operand and another ILI as the other
FmaCandidates ==
  {id \in Listed :
     LET i == S.insn[id]
     IN  /\ i.ilix # 0 /\ i.tmps # NULL /\ i.operands # <<>>
         /\ fused_multiply_add_candidate(i.ilix) # 0
         /\ ILI_OPND(i.ilix, 1) # ILI_OPND(i.ilix, 2)
         /\ S.tmps[i.tmps].use_count > 0}

\* in the next state the four instructions in front of id promote a, b, c to
\* vectors and call the intrinsic, and id extracts element 0 of the result
FusedVector(id, a, b, c) ==
  LET p == IndexOf(S'.list, id)
      I(k) == S'.insn[S'.list[p - 5 + k]]
  IN  /\ p > 4
      /\ \A k \in 1..3 : I(k).i_name = "I_INSELE" /\ I(k).operands[1].ot_type = "OT_UNDEF"
      /\ same_op(I(1).operands[2], a) /\ same_op(I(2).operands[2], b)
      /\ same_op(I(3).operands[2], c)
      /\ I(4).i_name = "I_PICALL" /\ I(4).operands[1].val = get_mac_name
      /\ \A k \in 1..3 : I(4).operands[k + 1].tmps = I(k).tmps
      /\ S'.insn[id].i_name = "I_EXTELE"
      /\ S'.insn[id].operands[1].tmps = I(4).tmps

\* C3: an add whose ILI is an add of a multiply ILI and another ILI is
\* rewritten when the use count of the multiply's temporary is 1: in place,
\* by one intrinsic call on a, b, c (generic and POWER builds) or by an
\* element extraction fed by an intrinsic call on the vector-promoted a, b, c
\* (X86-64 builds); when the use count is above 1 the add is left as it was
C3_Fusion ==
  [][pc = "rewrite" /\ cfg.fma =>
       \A id \in FmaCandidates :
         LET matches == fused_multiply_add_candidate(S.insn[id].ilix)
             k == IF matches = ILI_OPND(S.insn[id].ilix, 1) THEN 1 ELSE 2
             m == S.insn[id].operands[k].tmps
             mul == S.insn[S.tmps[m].idef]
             c == S.insn[id].operands[3 - k]
         IN  IF S.tmps[m].use_count > 1 THEN S'.insn[id] = S.insn[id]
             ELSE /\ mul.i_name = "I_FMUL"
                  /\ S'.insn[id].tmps = S.insn[id].tmps
                  /\ IF cfg.target = "X8664"
                     THEN FusedVector(id, mul.operands[1], mul.operands[2], c)
                     ELSE FusedCall(id, mul.operands[1], mul.operands[2], c)
                          /\ IndexOf(S'.list, id) = IndexOf(S.list, id)]_vars

\* after the rewrite: a fused call in the list, and an add left alone because
\* its multiply is used twice
C3_Witness ==
  /\ pc = "dce" /\ cfg.fma
  /\ \E id \in Listed : S.insn[id].i_name = "I_PICALL"
  /\ \E id \in FmaCandidates : S.insn[id].i_name = "I_FADD"

Terminators == {"br", "ret"}
\* list positions holding a label other than the routine entry label
LabelPositions ==
  {p \in 1..Len(S.list) :
     /\ S.insn[S.list[p]].i_name = "I_NONE"
     /\ ~(p = 1 /\ S.insn[S.list[p]].operands[1].val = "0")}
\* the line of the printed text that carries the label of instruction id
LabelLine(id) == CHOOSE i \in 1..Len(out) : out[i].k = "label" /\ out[i].id = id

\* C4: in the printed text every label line comes right after a terminator
\* line, and a listed label whose predecessor in the list is not a branch, a
\* switch or a return (another label included) is printed right after a
\* synthesized branch to that label
C4_LabelAfterTerminator ==
  pc = "done" =>
    /\ \A i \in 1..Len(out) :
         out[i].k = "label" => i > 1 /\ out[i - 1].k \in Terminators
    /\ \A p \in LabelPositions :
         LET id == S.list[p]
             i == LabelLine(id)
         IN  /\ \E j \in 1..Len(out) : out[j].k = "label" /\ out[j].id = id
             /\ (p = 1 \/ S.insn[S.list[p - 1]].i_name \notin {"I_BR", "I_SW", "I_RET"})
                  => /\ out[i - 1].k = "br" /\ out[i - 1].synth
                     /\ out[i - 1].name = S.insn[id].operands[1].val

\* the text holds a label printed after a synthesized branch, one printed
\* after a listed terminator, and two listed labels were back to back
C4_Witness ==
  /\ pc = "done"
  /\ \E i \in 2..Len(out) : out[i].k = "label" /\ out[i - 1].k = "br" /\ out[i - 1].synth
  /\ \E i \in 2..Len(out) : out[i].k = "label" /\ out[i - 1].k \in Terminators
                              /\ ~out[i - 1].synth
  /\ \E p \in LabelPositions : p > 1 /\ S.insn[S.list[p - 1]].i_name = "I_NONE"

LastInstr == S.insn[S.list[Len(S.list)]]

\* C5: once the last block has been lowered, the instruction list of a
\* routine whose last block holds no explicit return ends in a return
C5_EndsInTerminator ==
  pc # "lower" /\ ~blk.mv => LastInstr.i_name = "I_RET"

\* log entries of loads satisfied by find_load_cse(): from an earlier load
\* ("load") or from the value of an earlier store ("store")
Reuses == {i \in LogIdx : S.log[i].kind \in {"load", "store"}}
\* the instructions that stood between the reused instruction and the end of
\* the list when the reuse was decided
Between(i) == {id \in Listed : S.log[i].src < id /\ id <= S.log[i].n}
StoresBetween(i) == {id \in Between(i) : S.insn[id].i_name = "I_STORE"}
LoadNme(i) == ILI_OPND(S.log[i].ilix, 2)
Forwarding(i) ==
  LET st == S.insn[S.log[i].src]
  IN  S.log[i].kind = "store" =>
        /\ st.i_name = "I_STORE"
        /\ ILI_OPND(st.ilix, 2) = ILI_OPND(S.log[i].ilix, 1)
        /\ st.operands[1].ll_type = make_type_from_msz(ILI_OPC(S.log[i].ilix))

\* C6 as stated: no store to the same or a possibly-same location between
\* the reused instruction and the end of the list
C6_AsStated ==
  pc = "lower" =>
    \A i \in Reuses :
      /\ \A id \in StoresBetween(i) :
           enhanced_conflict(LoadNme(i), instr_nme(S.insn[id])) = "NOCONFLICT"
      /\ Forwarding(i)

\* C6: between the reused instruction and the end of the list there is no
\* store to the same location and, when dependence checking (flg.depchk) is
\* on, none to a possibly-same location; a stored value is forwarded only
\* from a store to the same address ILI whose value has the type of the load
C6_LoadReuse ==
  pc = "lower" =>
    \A i \in Reuses :
      /\ \A id \in StoresBetween(i) :
           LET c == enhanced_conflict(LoadNme(i), instr_nme(S.insn[id]))
           IN  c # "SAME" /\ (cfg.depchk => c = "NOCONFLICT")
      /\ Forwarding(i)

\* with dependence checking off, a stored value was forwarded to a load
\* across a later store to a possibly-same location
C6_Witness ==
  /\ pc = "lower" /\ ~cfg.depchk
  /\ \E i \in Reuses :
       /\ S.log[i].kind = "store"
       /\ \E id \in StoresBetween(i) :
            enhanced_conflict(LoadNme(i), instr_nme(S.insn[id])) = "CONFLICT"

Ordered(id) ==
  S.insn[id].flags \cap {"ATOMIC_ACQUIRE_FLAG", "ATOMIC_ACQ_REL_FLAG",
                         "ATOMIC_SEQ_CST_FLAG"} # {}

\* C7 as stated: no instruction with acquire, acq_rel or seq_cst ordering
\* between the reused instruction and the end of the list
C7_AsStated ==
  pc = "lower" => \A i \in Reuses : \A id \in Between(i) : ~Ordered(id)

\* C7: between the reused instruction and the end of the list there is no
\* load, compare-exchange, atomic read-modify-write or fence with acquire,
\* acq_rel or seq_cst ordering; an atomic store is treated as a store
C7_NoReuseAcrossFence ==
  pc = "lower" =>
    \A i \in Reuses : \A id \in Between(i) :
      S.insn[id].i_name \in {"I_LOAD", "I_CMPXCHG", "I_ATOMICRMW", "I_FENCE"}
        => ~Ordered(id)

\* a value was reused for a load across an atomic store with sequentially
\* consistent ordering
C7_Witness ==
  /\ pc = "lower"
  /\ \E i \in Reuses : \E id \in Between(i) : S.insn[id].i_name = "I_STORE" /\ Ordered(id)

\* extended basic blocks opened by a block that carries a label: the label
\* instruction is appended before the block opens its extended basic block
LabelledEbbs ==
  {S.insn[id].ebb + 1 : id \in {j \in Listed : /\ S.insn[j].i_name = "I_NONE"
                                                /\ S.insn[j].operands[1].val = "L1"}}
\* log entries of operands that were returned instead of being computed
Returned == {i \in LogIdx : S.log[i].kind \in {"cse_hit", "instr", "bitcast", "load", "store"}}
\* the extended basic block in which temporary t was defined
EbbOf(t) == S.insn[S.tmps[t].idef].ebb
\* node n was lowered in block e before log entry i was made
LoweredBefore(i) ==
  \E j \in 1..(i - 1) :
    S.log[j].kind = "ref" /\ S.log[j].ilix = S.log[i].ilix /\ S.log[j].ebb = S.log[i].ebb
\* nothing had been appended in the extended basic block of entry i yet
AtEbbStart(i) == \A id \in Listed : S.insn[id].ebb = S.log[i].ebb => id > S.log[i].n

\* C8 as stated: no operand returned by the node cache or by instruction,
\* bitcast or load reuse was produced in an earlier extended basic block
C8_AsStated ==
  pc = "lower" =>
    \A i \in Returned :
      S.log[i].tmps # NULL /\ S.tmps[S.log[i].tmps].idef # NULL
        => EbbOf(S.log[i].tmps) = S.log[i].ebb

\* C8: the node cache is cleared where a block with a label begins, so in an
\* extended basic block opened by a label a node-cache hit follows a lowering
\* of the node in that block; instruction reuse and load reuse take their
\* value from an instruction of the current extended basic block; bitcast
\* reuse does so except for the first instruction of the block
C8_EbbReuse ==
  pc = "lower" =>
    \A i \in Returned :
      /\ S.log[i].kind = "cse_hit" /\ S.log[i].ebb \in LabelledEbbs => LoweredBefore(i)
      /\ S.log[i].kind \in {"instr", "load", "store"} => S.insn[S.log[i].src].ebb = S.log[i].ebb
      /\ S.log[i].kind = "bitcast" => S.insn[S.log[i].src].ebb = S.log[i].ebb \/ AtEbbStart(i)

\* a CSE ILI was lowered in an extended basic block opened by a label and
\* did not hit although its node had been lowered in an earlier block
C8_Witness ==
  /\ pc = "lower"
  /\ \E i, j \in LogIdx :
       /\ j < i /\ S.log[i].kind = "cse_miss" /\ S.log[i].ebb \in LabelledEbbs
       /\ S.log[j].kind = "ref" /\ S.log[j].ilix = S.log[i].ilix /\ S.log[j].ebb < S.log[i].ebb

\* instructions created after log entry i and up to log entry j
Since(i, j) == {id \in Listed : S.log[i].n < id /\ id <= S.log[j].n}
\* an instruction after which a value of node n may be out of date
Killer(id, n) ==
  LET instr == S.insn[id]
  IN  \/ /\ instr.i_name = "I_STORE"
         /\ \E nm \in NmesOf(n) : enhanced_conflict(instr_nme(instr), nm) # "NOCONFLICT"
      \/ instr.i_name = "I_FENCE"
      \/ instr.i_name \in {"I_CALL", "I_INVOKE"} /\ "FAST_CALL" \notin instr.flags
\* entry i cached the operand that the node-cache hit j returned
CachedFor(i, j) ==
  /\ i < j /\ S.log[j].kind = "cse_hit" /\ S.log[i].kind = "ref"
  /\ S.log[i].ilix = S.log[j].ilix /\ S.log[i].ebb = S.log[j].ebb
  /\ S.log[i].tmps = S.log[j].tmps

\* the node of entry j was lowered in its extended basic block before the
\* reference that entry j records began (a miss logs its own lowering just
\* before itself)
LoweredEarlier(j) ==
  \E i \in 1..(j - 1) :
    /\ S.log[i].kind = "ref" /\ S.log[i].ilix = S.log[j].ilix
    /\ S.log[i].ebb = S.log[j].ebb
    /\ ~(S.log[j].kind = "cse_miss" /\ i = j - 1)

RemovedNames == {S.insn[S.removed[k].id].i_name : k \in 1..Len(S.removed)}
Unused(id) == S.insn[id].tmps # NULL /\ S.tmps[S.insn[id].tmps].use_count <= 0

\* C10 as stated: no call of any kind, invoke or atomic read-modify-write
\* instruction is deleted
C10_AsStated ==
  RemovedNames \cap {"I_CALL", "I_PICALL", "I_INVOKE", "I_ATOMICRMW"} = {}

\* C10: remove_dead_instrs deletes no I_CALL, I_INVOKE or I_ATOMICRMW
\* instruction, whatever the use count of its temporary (an intrinsic call,
\* I_PICALL, is not among the kinds it keeps)
C10_CallsKept ==
  RemovedNames \cap {"I_CALL", "I_INVOKE", "I_ATOMICRMW"} = {}

\* dead instruction removal has run and left a call and an atomic
\* read-modify-write whose results are unused
C10_Witness ==
  /\ pc = "done" /\ cfg.opt >= 1 /\ S.removed # <<>>
  /\ \E id \in Listed : S.insn[id].i_name = "I_CALL" /\ Unused(id)
  /\ \E id \in Listed : S.insn[id].i_name = "I_ATOMICRMW" /\ Unused(id)
\* adds that the rewrite step turns into a fused instruction
FusedAdds == {id \in Listed : S.insn[id].i_name = "I_FADD" /\ S'.insn[id].i_name # "I_FADD"}
ListedNext == {S'.list[p] : p \in 1..Len(S'.list)}
\* the instructions the step links in stand directly in front of a fused add
InFrontOfFused(p) ==
  \E q \in (p + 1)..Len(S'.list) :
    /\ S'.list[q] \in FusedAdds
    /\ \A k \in p..(q - 1) : S'.list[k] \notin Listed
\* in the next state instruction u has temporary t among its operands
UsesNext(u, t) ==
  \E k \in 1..Len(S'.insn[u].operands) :
    S'.insn[u].operands[k].ot_type = "OT_TMP" /\ S'.insn[u].operands[k].tmps = t
\* listed instructions that are the fused form of an add
FusedInstrs == {id \in Listed : S.insn[id].i_name \in {"I_PICALL", "I_EXTELE"}
                                 /\ S.insn[id].ilix = 0 /\ S.tmps[S.insn[id].tmps].idef = id}

\* C11: an add that fma_rewrite() fuses stays linked where it was (the
\* instructions that were listed keep their order, and what is linked in
\* stands directly in front of a fused add), keeps its temporary and remains
\* that temporary's definition, so every listed instruction that used the
\* add's result and is not fused itself still does, and uses a temporary a
\* listed instruction defines; and remove_dead_instrs() keeps, for every operand of a fused
\* instruction, the instruction that defines it
C11_FusedInPlace ==
  [][/\ pc = "rewrite" /\ cfg.fma =>
          /\ SelectSeq(S'.list, LAMBDA x : x \in Listed) = S.list
          /\ \A p \in 1..Len(S'.list) : S'.list[p] \notin Listed => InFrontOfFused(p)
          /\ \A id \in FusedAdds :
               /\ S'.insn[id].tmps = S.insn[id].tmps
               /\ S'.tmps[S.insn[id].tmps].idef = id
               /\ id \in ListedNext
               /\ \A u \in UsersOf(S.insn[id].tmps) :
                    u \in ListedNext /\ (u \in FusedAdds \/ UsesNext(u, S.insn[id].tmps))
     /\ pc = "dce" =>
          \A id \in FusedInstrs : \A t \in TmpOperands(id) :
            \E d \in ListedNext : S'.insn[d].tmps = t /\ S'.tmps[t].idef = d]_vars

\* dead instruction removal has run after a fusion: it deleted the multiply,
\* and the fused instruction is listed with a listed user of its result
C11_Witness ==
  /\ pc = "print" /\ cfg.fma /\ cfg.opt >= 1
  /\ \E k \in 1..Len(S.removed) : S.insn[S.removed[k].id].i_name = "I_FMUL"
  /\ \E id \in FusedInstrs : UsersOf(S.insn[id].tmps) # {}

\* the listed calls that the ILI give a GARGRET return buffer while the ABI
\* returns the value in a register
At(p) == S.insn[S.list[p]]
ListPos == 1..Len(S.list)
RegReturnCalls ==
  {p \in ListPos :
     /\ At(p).i_name = "I_CALL"
     /\ ILI_OPC(At(p).ilix) = "IL_JSR"
     /\ ILI_OPC(ILI_OPND(At(p).ilix, 2)) = "IL_GARGRET"
     /\ ~LL_ABI_HAS_SRET(ll_abi_from_call_site(ILI_OPND(At(p).ilix, 1)))}

\* operand o is the address of the symbol sym, possibly behind one bitcast
AddressOf(o, sym) ==
  \/ o.ot_type = "OT_VAR" /\ o.val = sym
  \/ /\ o.ot_type = "OT_TMP"
     /\ S.tmps[o.tmps].idef # NULL
     /\ S.insn[S.tmps[o.tmps].idef].i_name = "I_BITCAST"
     /\ S.insn[S.tmps[o.tmps].idef].operands[1].ot_type = "OT_VAR"
     /\ S.insn[S.tmps[o.tmps].idef].operands[1].val = sym

\* the GARGRET buffer of the call at position p
BufferOf(p) == ILI_OPND(ILI_OPND(ILI_OPND(At(p).ilix, 2), 1), 1)

\* position q holds the store of the result of the call at p to its buffer
StoresResult(p, q) ==
  /\ At(q).i_name = "I_STORE"
  /\ At(q).operands[1] = make_tmp_op(At(p).ll_type, At(p).tmps)
  /\ At(q).operands[2].ll_type = make_ptr_lltype(At(p).ll_type)
  /\ AddressOf(At(q).operands[2], BufferOf(p))

\* C12: a call whose ILI carry a hidden return buffer (GARGRET) while the
\* ABI returns the value in a register is followed in the list by a store of
\* the call's result temporary to the buffer address, with nothing but the
\* cast of that address between them; and a read of the buffer lowered after
\* the call is a load placed after that store, never a load from before it
C12_RegReturnStored ==
  \A p \in RegReturnCalls :
    /\ At(p).tmps # NULL
    /\ \E q \in ListPos :
         /\ q > p
         /\ StoresResult(p, q)
         /\ \A r \in (p + 1)..(q - 1) : At(r).i_name = "I_BITCAST"
         /\ \A u \in ListPos :
              u > q /\ At(u).ilix = 47 =>
                /\ At(u).operands[1].ot_type = "OT_TMP"
                /\ \E l \in (q + 1)..(u - 1) :
                     /\ At(l).i_name = "I_LOAD"
                     /\ At(l).tmps = At(u).operands[1].tmps
                     /\ AddressOf(At(l).operands[1], BufferOf(p))

\* the buffer is read before and after such a call, with load reuse enabled
C12_Witness ==
  /\ pc = "done" /\ cfg.opt = 1
  /\ \E p \in RegReturnCalls :
       /\ \E u \in 1..(p - 1) : At(u).ilix = 47
       /\ \E u \in (p + 1)..Len(S.list) : At(u).ilix = 47

\* the listed direct calls, their callee, ABI descriptor and argument operands
DirectCalls == {p \in ListPos : At(p).i_name = "I_CALL" /\ ILI_OPC(At(p).ilix) = "IL_JSR"}
CalleeOf(p) == ILI_OPND(At(p).ilix, 1)
AbiOf(p) == ll_abi_from_call_site(CalleeOf(p))
ArgsOf(p) == Tail(At(p).operands)

RECURSIVE GargCount(_)
\* the number of GARG arguments in the argument list from arg_ili on
GargCount(arg_ili) ==
  IF ILI_OPC(arg_ili) = "IL_NULL" THEN 0
  ELSE (IF ILI_OPC(arg_ili) = "IL_GARG" THEN 1 ELSE 0) + GargCount(ILI_OPND(arg_ili, 2))

\* the function type spelled from the call instruction's own result type and
\* argument operands
TypeFromOperands(p) ==
  make_function_type_from_args(At(p).ll_type, ArgsOf(p), AbiOf(p).call_as_varargs)

\* every argument of the call site is an operand of the call
AllArgsPresent(p) == Len(ArgsOf(p)) = GargCount(ILI_OPND(At(p).ilix, 2))

\* the callee operand of the call at p is a bitcast, listed before the call,
\* of the callee's address to a pointer to the type built from the operands
CalleeBitcast(p) ==
  LET o == At(p).operands[1]
  IN  /\ o.ot_type = "OT_TMP"
      /\ o.ll_type = make_ptr_lltype(TypeFromOperands(p))
      /\ \E q \in 1..(p - 1) :
           /\ At(q).i_name = "I_BITCAST" /\ At(q).tmps = o.tmps
           /\ At(q).ll_type = o.ll_type
           /\ At(q).operands[1] = make_var_op(CalleeOf(p))

\* C13 as stated: every variadic call and every call without a prototype
\* passes all its arguments and calls a bitcast of the callee to a pointer to
\* the type built from the return type and the operands present
C13_Original ==
  \A p \in DirectCalls :
    AbiOf(p).is_varargs \/ AbiOf(p).call_as_varargs \/ AbiOf(p).missing_prototype =>
      AllArgsPresent(p) /\ CalleeBitcast(p)

\* C13: a call without a prototype passes all its arguments and is made
\* through a pointer to the type built from the return type and the operands
\* present, which is a bitcast of the callee unless the callee already has
\* that type; a call to a variadic callee that has a prototype passes all
\* its arguments and calls the callee itself, with its declared type
C13_SynthesizedType ==
  \A p \in DirectCalls :
    /\ AbiOf(p).missing_prototype =>
         /\ AllArgsPresent(p)
         /\ IF LLTYPE(CalleeOf(p)) = make_ptr_lltype(TypeFromOperands(p))
            THEN At(p).operands[1] = make_var_op(CalleeOf(p))
            ELSE CalleeBitcast(p)
    /\ AbiOf(p).is_varargs /\ ~AbiOf(p).missing_prototype =>
         /\ AllArgsPresent(p)
         /\ At(p).operands[1] = make_var_op(CalleeOf(p))

\* a variadic callee with a prototype, a callee without one called through a
\* bitcast, and one called as declared, in one routine
C13_Witness ==
  /\ pc = "done"
  /\ \E p \in DirectCalls : AbiOf(p).is_varargs /\ Len(ArgsOf(p)) = 2
  /\ \E p \in DirectCalls : AbiOf(p).missing_prototype /\ CalleeBitcast(p)
  /\ \E p \in DirectCalls : AbiOf(p).missing_prototype /\ ~CalleeBitcast(p)

\* the listed instructions that carry a memory ordering
AtomicInstrs ==
  {id \in Listed :
     \/ S.insn[id].i_name \in {"I_ATOMICRMW", "I_FENCE", "I_CMPXCHG"}
     \/ /\ S.insn[id].i_name \in {"I_LOAD", "I_STORE"}
        /\ S.insn[id].ilix # 0
        /\ IL_HAS_FENCE(ILI_OPC(S.insn[id].ilix))}

OrderKeywords == {"monotonic", "acquire", "release", "acq_rel", "seq_cst"}

\* the keyword of the ordering mo, consume being lowered as acquire
KeywordOf(mo) ==
  CASE mo = "MO_RELAXED" -> "monotonic"
    [] mo \in {"MO_CONSUME", "MO_ACQUIRE"} -> "acquire"
    [] mo = "MO_RELEASE" -> "release"
    [] mo = "MO_ACQ_REL" -> "acq_rel"
    [] mo = "MO_SEQ_CST" -> "seq_cst"

\* the lines printed for instructions that carry a memory ordering
AtomicLines == {k \in 1..Len(out) : out[k].k = "instr" /\ out[k].id \in AtomicInstrs}

\* the alignment suffixes a load or a store is printed with
AlignTokens == {"align 4", "align 8"}

\* the tokens of line k but the scope and the alignment
OrderTokens(k) ==
  SelectSeq(out[k].mods, LAMBDA t : t \notin {"singlethread"} \cup AlignTokens)

\* C14: an atomic instruction whose ILI ask for consume carries the acquire
\* flag; every line printed for an atomic instruction shows an ordering
\* keyword (next to the scope and the alignment), each keyword is one of
\* monotonic, acquire, release, acq_rel and seq_cst, it is the keyword of the ordering asked for with consume read as
\* acquire, and consume is never printed
C14_ConsumeAsAcquire ==
  /\ \A id \in AtomicInstrs :
       LET mo == IF S.insn[id].ilix = 0 THEN cfg.mo ELSE memory_order(S.insn[id].ilix)
       IN  /\ mo = "MO_CONSUME" =>
                S.insn[id].flags \cap ATOMIC_MEM_ORD_FLAGS = {"ATOMIC_ACQUIRE_FLAG"}
           /\ S.insn[id].i_name = "I_CMPXCHG" /\ cfg.mo_fail = "MO_CONSUME" =>
                FROM_CMPXCHG_MEMORDER_FAIL(S.insn[id].flags) = {"ATOMIC_ACQUIRE_FLAG"}
  /\ \A k \in AtomicLines :
       LET instr == S.insn[out[k].id]
           mo == IF instr.ilix = 0 THEN cfg.mo ELSE memory_order(instr.ilix)
       IN  /\ OrderTokens(k) # <<>>
           /\ \A n \in 1..Len(out[k].mods) :
                out[k].mods[n] \in OrderKeywords \cup {"singlethread"} \cup AlignTokens
           /\ OrderTokens(k)[1] = KeywordOf(mo)
           /\ instr.i_name = "I_CMPXCHG" => OrderTokens(k)[2] = KeywordOf(cfg.mo_fail)

\* consume was asked for, and a load, a fence and a compare and exchange with
\* a consume failure ordering were printed
C14_Witness ==
  /\ pc = "done" /\ cfg.mo = "MO_CONSUME" /\ cfg.mo_fail = "MO_CONSUME"
  /\ \E k \in AtomicLines : out[k].name = "I_LOAD" /\ OrderTokens(k) = <<"acquire">>
  /\ \E k \in AtomicLines : out[k].name = "I_FENCE"
  /\ \E k \in AtomicLines :
       out[k].name = "I_CMPXCHG" /\ OrderTokens(k) = <<"acquire", "acquire">>

\* the instructions that reconcile the type of an operand with the type
\* expected of it
ConvNames == {"I_BITCAST", "I_SEXT", "I_ZEXT", "I_TRUNC"}

\* positions p < q of one extended basic block hold the same conversion of
\* the same operand to the same type
SameConversion(p, q) ==
  /\ p < q
  /\ At(p).i_name \in ConvNames /\ At(q).i_name = At(p).i_name
  /\ At(p).ebb = At(q).ebb
  /\ At(p).ll_type = At(q).ll_type
  /\ At(p).operands[1] = At(q).operands[1]

\* positions p < q of one extended basic block hold stores lowered from the
\* same store ILI, whose value and address nodes were so lowered twice with
\* the same expected types
SameStore(p, q) ==
  /\ p < q
  /\ At(p).i_name = "I_STORE" /\ At(q).i_name = "I_STORE"
  /\ At(p).ilix # 0 /\ At(p).ilix = At(q).ilix
  /\ At(p).ebb = At(q).ebb

\* the operands of loads and stores have the types expected of them
ExpectedTypes ==
  \A p \in ListPos :
    /\ At(p).i_name = "I_STORE" =>
         At(p).operands[2].ll_type = make_ptr_lltype(At(p).operands[1].ll_type)
    /\ At(p).i_name = "I_LOAD" =>
         At(p).operands[1].ll_type = make_ptr_lltype(At(p).ll_type)

\* a label or a branch is listed between positions p and q
LabelBetween(p, q) ==
  \E r \in (p + 1)..(q - 1) : At(r).i_name \in {"I_NONE", "I_BR", "I_INDBR"}

DefinedIn(o, e) ==
  /\ o.ot_type = "OT_TMP"
  /\ S.tmps[o.tmps].idef # NULL
  /\ S.insn[S.tmps[o.tmps].idef].ebb = e

\* operand o is the result of an integer extension
Extended(o) ==
  /\ o.ot_type = "OT_TMP"
  /\ S.tmps[o.tmps].idef # NULL
  /\ S.insn[S.tmps[o.tmps].idef].i_name = "I_SEXT"

SwitchShape(ops, sptr, is_64bit) ==
  LET k == Len(SWEL(sptr))
      Pair(i) == [val |-> ops[2 * i + 1].val, clabel |-> ops[2 * i + 2].val]
  IN  /\ Len(ops) = 2 + 2 * k
      /\ ops[1].ll_type = (IF is_64bit THEN "i64" ELSE "i32")
      /\ ops[1].ot_type = "OT_TMP"
      /\ ops[2] = make_target_op(DEFLABG(sptr))
      /\ \A i \in 1..k :
           /\ ops[2 * i + 1].ot_type = (IF is_64bit THEN "OT_CONSTSPTR" ELSE "OT_CONSTVAL")
           /\ ops[2 * i + 2].ot_type = "OT_TARGET"
      /\ \A j \in 1..k : Cardinality({i \in 1..k : Pair(i) = SWEL(sptr)[j]}) = 1

\* the instructions of the instruction table C.insn that are switches
Switches(C) == {i \in 1..Len(C.insn) : C.insn[i].i_name = "I_SW"}

\* the lines printed for switches
SwitchLines == {n \in 1..Len(out) : out[n].k = "instr" /\ out[n].name = "I_SW"}

\* C16: lowering a multi-way jump appends one switch instruction, at the end
\* of the list, and every listed switch has as operands the selector, the
\* default label of its table and exactly one (value, label) pair for each
\* case; every listed switch is printed once, and the printed switch shows
\* that default label and exactly those pairs
C16_SwitchOperands ==
  /\ [](\A p \in ListPos :
          At(p).i_name = "I_SW" =>
            /\ ILI_OPC(At(p).ilix) \in {"IL_JMPM", "IL_JMPMK"}
            /\ SwitchShape(At(p).operands, ILI_OPND(At(p).ilix, 3),
                           ILI_OPC(At(p).ilix) = "IL_JMPMK"))
  /\ [](pc = "done" =>
          /\ \A n \in SwitchLines :
               /\ out[n].id \in Listed
               /\ SwitchShape(out[n].mods, ILI_OPND(S.insn[out[n].id].ilix, 3),
                              ILI_OPC(S.insn[out[n].id].ilix) = "IL_JMPMK")
          /\ \A id \in Listed \cap Switches(S) :
               Cardinality({n \in SwitchLines : out[n].id = id}) = 1)
  /\ [][/\ Cardinality(Switches(S')) <= Cardinality(Switches(S)) + 1
         /\ (Switches(S') # Switches(S) =>
               /\ pc = "lower"
               /\ S'.insn[S'.list[Len(S'.list)]].i_name = "I_SW"
               /\ S'.list[Len(S'.list)] \notin Switches(S))
         /\ ((/\ pc = "lower" /\ Len(S'.list) > Len(S.list)
               /\ ILI_OPC(S'.insn[S'.list[Len(S'.list)]].ilix) \in {"IL_JMPM", "IL_JMPMK"})
               => Switches(S') # Switches(S))]_vars

\* a switch of two cases with the default label Ld was lowered after a store
\* and printed
C16_Witness ==
  /\ pc = "done"
  /\ \E n \in SwitchLines :
       /\ Len(out[n].mods) = 6 /\ out[n].mods[2].val = "Ld"
       /\ \E m \in 1..(n - 1) : out[m].name = "I_STORE"

(***************************************************************************)
(* Complex multiply.                                                       *)
(***************************************************************************)
\* the stores of a complex product standing in the list
CmplxMulStores ==
  {p \in ListPos : /\ At(p).i_name = "I_STORE"
                   /\ ILI_OPC(At(p).ilix) = "IL_STSCMPLX"
                   /\ ILI_OPC(ILI_OPND(At(p).ilix, 1)) = "IL_SCMPLXMUL"}
\* operand o is a temporary defined by an instruction of the given name that
\* stands in the list in front of position p
DefBefore(o, name, p) ==
  /\ o.ot_type = "OT_TMP"
  /\ S.tmps[o.tmps].idef # NULL
  /\ S.insn[S.tmps[o.tmps].idef].i_name = name
  /\ IndexOf(S.list, S.tmps[o.tmps].idef) \in 1..(p - 1)
OperandsOf(o) == S.insn[S.tmps[o.tmps].idef].operands
\* temporary t holds the value of the complex variable of address ILI acon:
\* it was loaded from the variable, or is the value last stored to it
Factor(t, acon, p) ==
  \/ /\ S.tmps[t].idef # NULL
     /\ S.insn[S.tmps[t].idef].i_name = "I_LOAD"
     /\ S.insn[S.tmps[t].idef].ll_type = "cmplx"
     /\ S.insn[S.tmps[t].idef].operands[1].val = ILI_OPND(acon, 1)
     /\ IndexOf(S.list, S.tmps[t].idef) \in 1..(p - 1)
  \/ \E q \in 1..(p - 1) :
       /\ At(q).i_name = "I_STORE"
       /\ At(q).operands[2].ot_type = "OT_VAR" /\ At(q).operands[2].val = ILI_OPND(acon, 1)
       /\ At(q).operands[1].ot_type = "OT_TMP" /\ At(q).operands[1].tmps = t
\* o is field idx of the complex value held by temporary t
Component(o, t, idx, p) ==
  /\ DefBefore(o, "I_EXTRACTVAL", p)
  /\ o.ll_type = "float"
  /\ Len(OperandsOf(o)) = 2
  /\ OperandsOf(o)[1].ot_type = "OT_TMP" /\ OperandsOf(o)[1].tmps = t
  /\ OperandsOf(o)[2].ot_type = "OT_CONSTVAL" /\ OperandsOf(o)[2].val = idx
\* o is the product of field i1 of t1 and field i2 of t2
Product(o, t1, i1, t2, i2, p) ==
  /\ DefBefore(o, "I_FMUL", p)
  /\ Len(OperandsOf(o)) = 2
  /\ Component(OperandsOf(o)[1], t1, i1, p)
  /\ Component(OperandsOf(o)[2], t2, i2, p)
\* o is the aggregate of the complex product of the values t1 and t2
ComplexProduct(o, t1, t2, p) ==
  /\ DefBefore(o, "I_INSERTVAL", p)
  /\ o.ll_type = "cmplx"
  /\ Len(OperandsOf(o)) = 3
  /\ OperandsOf(o)[3].val = "1"
  /\ DefBefore(OperandsOf(o)[2], "I_FADD", p)
  /\ Len(OperandsOf(OperandsOf(o)[2])) = 2
  /\ Product(OperandsOf(OperandsOf(o)[2])[1], t1, "0", t2, "1", p)
  /\ Product(OperandsOf(OperandsOf(o)[2])[2], t1, "1", t2, "0", p)
  /\ DefBefore(OperandsOf(o)[1], "I_INSERTVAL", p)
  /\ Len(OperandsOf(OperandsOf(o)[1])) = 3
  /\ OperandsOf(OperandsOf(o)[1])[1].ot_type = "OT_UNDEF"
  /\ OperandsOf(OperandsOf(o)[1])[3].val = "0"
  /\ DefBefore(OperandsOf(OperandsOf(o)[1])[2], "I_FSUB", p)
  /\ Len(OperandsOf(OperandsOf(OperandsOf(o)[1])[2])) = 2
  /\ Product(OperandsOf(OperandsOf(OperandsOf(o)[1])[2])[1], t1, "0", t2, "0", p)
  /\ Product(OperandsOf(OperandsOf(OperandsOf(o)[1])[2])[2], t1, "1", t2, "1", p)
CallInstrs(C) ==
  {id \in 1..Len(C.insn) : C.insn[id].i_name \in {"I_CALL", "I_PICALL", "I_INVOKE"}}
Named(C, name) == Cardinality({id \in 1..Len(C.insn) : C.insn[id].i_name = name})

\* C17: the value stored for a complex multiply of (a,b) by (c,d) is the
\* aggregate whose field 0 is the subtract a*c - b*d and whose field 1 is the
\* add a*d + b*c, each product a multiply of two extracted components of the
\* factors (a factor is the variable's loaded value or the value last stored
\* to it), all standing in the list in front of the store, from the
\* lowering to the printing, with or without the FMA rewrite; the lowering
\* emits four multiplies, one subtract, one add and no call
C17_ComplexMultiply ==
  /\ [](\A p \in CmplxMulStores :
          \E t1, t2 \in 1..Len(S.tmps) :
            /\ Factor(t1, ILI_OPND(ILI_OPND(ILI_OPND(At(p).ilix, 1), 1), 1), p)
            /\ Factor(t2, ILI_OPND(ILI_OPND(ILI_OPND(At(p).ilix, 1), 2), 1), p)
            /\ ComplexProduct(At(p).operands[1], t1, t2, p))
  /\ [][(/\ pc = "lower"
          /\ Len(S'.list) > Len(S.list)
          /\ ILI_OPC(S'.insn[S'.list[Len(S'.list)]].ilix) = "IL_STSCMPLX"
          /\ ILI_OPC(ILI_OPND(S'.insn[S'.list[Len(S'.list)]].ilix, 1)) = "IL_SCMPLXMUL")
         => (/\ CallInstrs(S') = CallInstrs(S)
             /\ Named(S', "I_FMUL") = Named(S, "I_FMUL") + 4
             /\ Named(S', "I_FSUB") = Named(S, "I_FSUB") + 1
             /\ Named(S', "I_FADD") = Named(S, "I_FADD") + 1
             /\ Named(S', "I_INSERTVAL") = Named(S, "I_INSERTVAL") + 2
             /\ Named(S', "I_EXTRACTVAL") = Named(S, "I_EXTRACTVAL") + 6)]_vars

\* cy = cx * cy was lowered with reuse and the FMA rewrite enabled, after a
\* scalar multiply-add that was fused, and the routine was printed
C17_Witness ==
  /\ pc = "done" /\ cfg.fma /\ cfg.opt >= 1
  /\ \E p \in CmplxMulStores : At(p).ilix = 68
  /\ \E q \in ListPos : At(q).i_name = "I_PICALL"
  /\ \E n \in 1..Len(out) : out[n].name = "I_FSUB"

(***************************************************************************)
(* Printed modifiers.                                                      *)
(***************************************************************************)
\* line k shows its modifiers in the order scope, ordering, alignment, and
\* shows the scope exactly when the instruction carries the singlethread flag
ModifierOrder(k) ==
  LET m == out[k].mods
      instr == S.insn[out[k].id]
  IN  /\ "ATOMIC_SINGLETHREAD_FLAG" \in instr.flags => (m # <<>> /\ m[1] = "singlethread")
      /\ \A n \in 1..Len(m) :
           m[n] = "singlethread" => (n = 1 /\ "ATOMIC_SINGLETHREAD_FLAG" \in instr.flags)
      /\ \E n \in 1..Len(m) : m[n] \in OrderKeywords
      /\ LDST_BYTEALIGN(instr.flags) # 0 => (m # <<>> /\ m[Len(m)] \in AlignTokens)
      /\ \A i, j \in 1..Len(m) :
           (i < j /\ m[i] \in AlignTokens) => m[j] \in AlignTokens

\* C18: every load, store, fence, atomic read-modify-write and compare and
\* exchange that carries a memory ordering is printed with singlethread first
\* whenever it carries the singlethread flag, then the ordering keyword, then
\* the alignment
C18_ModifierOrder == \A k \in AtomicLines : ModifierOrder(k)

\* the same of every such instruction but the compare and exchange
C18_ButCmpxchg ==
  \A k \in AtomicLines : out[k].name # "I_CMPXCHG" => ModifierOrder(k)

(***************************************************************************)
(* The instruction list as a doubly linked list.                           *)
(***************************************************************************)
RECURSIVE Chain(_, _, _)
\* the instructions met from id on by following the next links, at most n
Chain(C, id, n) ==
  IF id = NULL \/ n = 0 THEN <<>> ELSE <<id>> \o Chain(C, C.next[id], n - 1)

\* the links describe one list from Instructions to last_instr, each
\* instruction once, the prev link of each the instruction in front of it,
\* and it is the list the lowering walks
WellFormed(C) ==
  LET w == Chain(C, C.Instructions, Len(C.insn) + 1)
  IN  /\ w = C.list
      /\ w # <<>>
      /\ C.prev[w[1]] = NULL
      /\ \A k \in 1..(Len(w) - 1) : C.prev[w[k + 1]] = w[k]
      /\ C.last_instr = w[Len(w)]
      /\ C.next[C.last_instr] = NULL

IsPrefix(s, t) == Len(s) <= Len(t) /\ SubSeq(t, 1, Len(s)) = s
RECURSIVE IsSubSeq(_, _)
\* s is t with some elements left out
IsSubSeq(s, t) ==
  IF s = <<>> THEN TRUE
  ELSE IF t = <<>> THEN FALSE
  ELSE IF Head(s) = Head(t) THEN IsSubSeq(Tail(s), Tail(t))
  ELSE IsSubSeq(s, Tail(t))
\* the step changes a link of an instruction that is not the tail
InteriorRelinked ==
  \E id \in 1..Len(S.insn) :
    /\ id # S.last_instr
    /\ id \in Listed
    /\ (S'.next[id] # S.next[id] \/ S'.prev[id] # S.prev[id])
\* what every step but the rewrite and the removal does to the list: the
\* new instructions are linked in behind the tail
TailInsertion ==
  /\ IsPrefix(S.list, S'.list)
  /\ \A k \in (Len(S.list) + 1)..Len(S'.list) : S'.list[k] > Len(S.insn)
\* what the FMA rewrite does: the instructions stay, in their order, new
\* ones come in front of a rewritten add, the tail stays
RewriteSplice ==
  /\ IsSubSeq(S.list, S'.list)
  /\ S'.last_instr = S.last_instr
  /\ S'.list[Len(S'.list)] = S.list[Len(S.list)]

\* C20 as stated: the list is well-formed, instructions come in at the tail,
\* and only the FMA rewrite relinks interior nodes, keeping the tail
C20_Original ==
  /\ [](WellFormed(S))
  /\ [][(pc # "rewrite" => (TailInsertion /\ ~InteriorRelinked))
         /\ (pc = "rewrite" => RewriteSplice)]_vars

\* C20: at every point the links describe one well-formed list from head to
\* tail; lowering links every new instruction in at the tail and relinks no
\* interior node; the FMA rewrite links new instructions in front of the add
\* it rewrites and keeps the tail; the removal of dead instructions, the only
\* other step that relinks interior nodes, unlinks instructions and adds
\* none
C20_LinkedList ==
  /\ [](WellFormed(S))
  /\ [][(pc \notin {"rewrite", "dce"} => (TailInsertion /\ ~InteriorRelinked))
         /\ (pc = "rewrite" => RewriteSplice)
         /\ (pc = "dce" => IsSubSeq(S'.list, S.list))]_vars

\* the rewrite linked vector inserts in front of an add inside the list, the
\* removal then unlinked an instruction inside the list, and the list was
\* printed
C20_Witness ==
  /\ pc = "done" /\ cfg.fma /\ cfg.target = "X8664"
  /\ \E p \in 2..(Len(S.list) - 1) :
       /\ At(p).i_name = "I_EXTELE"
       /\ S.list[p - 1] > S.list[p]
  /\ \E k \in 1..Len(S.removed) :
       /\ S.removed[k].id < S.list[Len(S.list)]
       /\ S.next[S.removed[k].id] # NULL

(***************************************************************************)
(* The start of a routine.                                                 *)
(***************************************************************************)
AtRoutineStart == pc = "lower" /\ blk.n = 0
CacheEmpty ==
  /\ \A i \in CsedSet : S.csed[i].ot_type = "OT_NONE"
  /\ \A i \in IlixSet : S.count[i] = 0 /\ S.tempsMap[i] = NULL
\* every instruction of the list but the entry label has its line, and the
\* lines stand in the order of the list
PrintedInFull ==
  /\ \A p \in 2..Len(S.list) : \E n \in 1..Len(out) : out[n].id = S.list[p]
  /\ \A p, q \in 2..Len(S.list) :
       p < q => \E n, m \in 1..Len(out) :
                  n < m /\ out[n].id = S.list[p] /\ out[m].id = S.list[q]

BlockBegins == pc = "lower" /\ blk'.n = blk.n + 1
SameContext(b) ==
  /\ (b \in cfg.par) = (b + 1 \in cfg.par)
  /\ (b \in cfg.cs) = (b + 1 \in cfg.cs)
  /\ (b \in cfg.task) = (b + 1 \in cfg.task)
Unmarked(b) == b \notin cfg.nomerge /\ b + 1 \notin cfg.nomerge
StartsEbb == S'.new_ebb /\ S'.ebb = S.ebb + 1
GoesOn == S'.new_ebb = S.new_ebb /\ S'.ebb = S.ebb

\* C21 as stated: a block with the context of the block before it and no
\* do-not-merge mark on either goes on in the extended basic block of the
\* block before
C21_Original ==
  [][(BlockBegins /\ blk.n >= 1 /\ SameContext(blk.n) /\ Unmarked(blk.n))
       => GoesOn]_vars

\* what the optimisation level asks of the block before
LevelMerges(b) ==
  \/ cfg.opt = 1 /\ b = 1 /\ cfg.en
  \/ cfg.opt >= 2 /\ b # cfg.tail

\* C21: a block goes on in the extended basic block of the block before it
\* exactly when the two have the same parallel, task and critical-section
\* context, neither carries the do-not-merge mark, the block carries no
\* label, and the level is 1 with the block before an entry block or at
\* least 2 with the block before not a tail; any other block starts an
\* extended basic block.  In a block that goes on, no instruction is marked
\* as the start of an extended basic block unless none was made since the
\* one before began, so the walks for reuse reach the block before
C21_MergedBlocks ==
  /\ [][BlockBegins =>
          IF /\ blk.n >= 1 /\ SameContext(blk.n) /\ Unmarked(blk.n)
             /\ blk.n + 1 # cfg.lab /\ LevelMerges(blk.n)
          THEN GoesOn ELSE StartsEbb]_vars
  /\ []((pc = "lower" /\ blk.joined) =>
          \A id \in (blk.base + 1)..Len(S.insn) :
            "STARTEBB" \in S.insn[id].flags =>
              \A j \in 1..blk.base : S.insn[j].ebb # S.ebb)

\* the second block goes on in the extended basic block of the first, and
\* its load of x is the one made in the first
C21_Witness ==
  /\ pc = "lower" /\ blk.n = 2 /\ blk.joined /\ cfg.opt = 2
  /\ \E i \in 1..Len(S.log) :
       /\ S.log[i].kind = "load"
       /\ S.log[i].n >= blk.base
       /\ S.log[i].src # NULL /\ S.log[i].src <= blk.base

(***************************************************************************)
(* Declarations of intrinsics.                                             *)
(***************************************************************************)
IntrinsicCalls(name) ==
  {id \in 1..Len(S.insn) : /\ "CALL_INTRINSIC_FLAG" \in S.insn[id].flags
                           /\ S.insn[id].operands[1].val = name}
IntrinsicNames ==
  {S.exfuncs[i].func_def : i \in 1..Len(S.exfuncs)}
    \cup {S.insn[id].operands[1].val :
            id \in {j \in 1..Len(S.insn) : "CALL_INTRINSIC_FLAG" \in S.insn[j].flags}}
Requests(name) == {i \in 1..Len(S.exfuncs) : S.exfuncs[i].func_def = name}
RequestsIn(name, r) == {i \in Requests(name) : S.exfuncs[i].routine = r}
ListKept == [][IsPrefix(S.exfuncs, S'.exfuncs)]_vars

MaxResets == 1    \* llvmResetSname() calls per routine

SymIds == {"cm", "st", "ef", "ev", "a", "ap", "l", "ls", "lab", "c", "p", "b"}
\* the symbols one routine refers to
SymSets == {{"a", "ap", "l", "p"}, {"cm", "st", "ef", "ev"}, {"ls", "lab", "c", "b"}}

\* the symbol table entries (stb): storage class, symbol type, data type, ...
stb ==
  LET sym(sc, stype, dtype) ==
        [sc |-> sc, stype |-> stype, dtype |-> dtype, midnum |-> "",
         defd |-> FALSE, dinit |-> FALSE, save |-> FALSE, dcld |-> FALSE]
  IN  [s \in SymIds |->
        CASE s = "cm"  -> sym("SC_CMBLK", "ST_CMBLK", "struct")
          [] s = "st"  -> [sym("SC_STATIC", "ST_VAR", "float") EXCEPT !.dcld = TRUE]
          [] s = "ef"  -> sym("SC_EXTERN", "ST_PROC", "float")
          [] s = "ev"  -> [sym("SC_EXTERN", "ST_VAR", "i32") EXCEPT !.defd = TRUE, !.dcld = TRUE]
          [] s = "a"   -> sym("SC_DUMMY", "ST_VAR", "float")
          [] s = "ap"  -> [sym("SC_DUMMY", "ST_VAR", "DT_ADDR") EXCEPT !.midnum = "a"]
          [] s = "l"   -> [sym("SC_LOCAL", "ST_VAR", "i32") EXCEPT !.dcld = TRUE]
          [] s = "ls"  -> [sym("SC_LOCAL", "ST_VAR", "float") EXCEPT !.save = TRUE]
          [] s = "lab" -> sym("SC_NONE", "ST_LABEL", "none")
          [] s = "c"   -> sym("SC_NONE", "ST_CONST", "i32")
          [] s = "p"   -> sym("SC_PRIVATE", "ST_VAR", "i32")
          [] s = "b"   -> sym("SC_BASED", "ST_VAR", "float")]

\* if (SNAME(sptr)) return;
already_processed_never(C, sptr) == FALSE
already_processed(C, sptr) == C.sptr_array[sptr] # ""

\* process_sptr_offset() with the process_*_sptr() routines it dispatches to.
\* flags has flg.debug and gbl.outlined.  No symbol of the table is an IPA
\* duplicate (follow_sptr_hashlk() is 0), a CUDA device symbol, an
\* overlapped local (SOCPTRG) or the hidden return argument.
process_sptr_offset(C, flags, sptr, off) ==
  LET SNAME(D, s) == D.sptr_array[s]
      interr(D, msg) == [D EXCEPT !.fatal = msg]
      get_llvm_name(s) == s
      char_type(dtype) == dtype
      sym_is_refd(D, s) == D
      update_llvm_sym_arrays(D) == D      \* stb.symavl has not grown: NEEDB keeps both arrays
      set_global_sname(D, s, name) == [D EXCEPT !.sptr_array[s] = "@" \o name]
      set_local_sname(D, s, name) == [D EXCEPT !.sptr_array[s] = "%" \o name]
      need_debug_info(s) == flags.debug /\ stb[s].dcld
      add_dbg(D, kind, s) == [D EXCEPT !.dbg = Append(@, [kind |-> kind, sptr |-> s])]
      addDebugForGlobalVar(D, s) == IF need_debug_info(s) THEN add_dbg(D, "global", s) ELSE D
      addDebugForLocalVar(D, s) == IF need_debug_info(s) THEN add_dbg(D, "local", s) ELSE D
      \* ll_create_local_object(): an alloca of the routine; SNAME is its address
      create_local(D, s, type, name) ==
        [D EXCEPT !.locals = Append(@, [type |-> type, name |-> name]),
                  !.sptr_array[s] = "%" \o name]
      \* create_global_initializer()
      global_def(D, s, flag_str, type_str) ==
        IF stb[s].dinit THEN ""
        ELSE LET initializer == IF stb[s].dtype = "struct" THEN "zeroinitializer"
                                ELSE IF stb[s].stype = "ST_VAR" /\ stb[s].dtype = "float"
                                THEN "0.0" ELSE "0"
             IN  SNAME(D, s) \o " = " \o flag_str \o " " \o type_str \o " " \o initializer
      \* add_global_define() with check_global_define()
      add_global_define(D, gitem) ==
        IF gitem.sptr \in D.recorded_Globals THEN D
        ELSE LET D1 == [D EXCEPT !.recorded_Globals = @ \cup {gitem.sptr},
                                 !.Globals = Append(@, gitem)]
             IN  IF flags.debug /\ stb[gitem.sptr].stype = "ST_VAR"
                 THEN add_dbg(D1, "global", gitem.sptr) ELSE D1
      process_static_sptr(D, s) ==
        IF SNAME(D, s) # "" THEN interr(D, "Already precessed sptr")
        ELSE LET D1 == sym_is_refd(set_global_sname(D, s, get_llvm_name(s)), s)
             IN  IF stb[s].stype \notin {"ST_ENTRY", "ST_PROC", "ST_CONST", "ST_PARAM"}
                 THEN addDebugForGlobalVar(D1, s) ELSE D1
      process_extern_function_sptr(D, s) ==
        IF SNAME(D, s) # "" THEN interr(D, "Already precessed sptr")
        ELSE LET D1 == sym_is_refd(set_global_sname(D, s, get_llvm_name(s)), s)
             IN  IF stb[s].defd THEN D1
                 ELSE [D1 EXCEPT !.exfuncs = Append(@,
                         [sptr |-> s, flags |-> {},
                          func_def |-> " " \o char_type(stb[s].dtype) \o " " \o SNAME(D1, s)])]
      process_extern_variable_sptr(D, s) ==
        IF SNAME(D, s) # "" THEN interr(D, "Already processed sptr")
        ELSE LET D1 == set_global_sname(D, s, get_llvm_name(s))
             IN  IF ~stb[s].defd THEN D1
                 ELSE add_global_define(D1,
                        [sptr |-> s,
                         global_def |-> global_def(D1, s, IF stb[s].dinit THEN "global"
                                                          ELSE "common global",
                                                   char_type(stb[s].dtype))])
      process_local_sptr(D, s) ==
        IF SNAME(D, s) # "" THEN interr(D, "Already precessed sptr")
        ELSE LET D1 == sym_is_refd(D, s)
             IN  IF stb[s].dinit \/ stb[s].save
                 THEN LET D2 == set_global_sname(D1, s, get_llvm_name(s))
                      IN  addDebugForLocalVar(
                            add_global_define(D2,
                              [sptr |-> s,
                               global_def |-> global_def(D2, s, "internal global",
                                                         char_type(stb[s].dtype))]), s)
                 ELSE addDebugForLocalVar(
                        create_local(D1, s, stb[s].dtype, get_llvm_name(s)), s)
      process_private_sptr(D, s) ==
        IF ~flags.outlined THEN D
        ELSE IF SNAME(D, s) # "" THEN interr(D, "Already precessed sptr")
        ELSE create_local(sym_is_refd(D, s), s, stb[s].dtype, get_llvm_name(s))
      process_auto_sptr(D, s) ==
        IF SNAME(D, s) # "" THEN interr(D, "Already precessed sptr")
        ELSE addDebugForLocalVar(create_local(D, s, stb[s].dtype, s \o ".addr"), s)
      process_label_sptr(D, s) ==
        IF SNAME(D, s) # "" THEN interr(D, "Already precessed sptr")
        ELSE CASE stb[s].stype = "ST_CONST" -> sym_is_refd(D, s)
               [] stb[s].stype = "ST_MEMBER" -> D
               [] OTHER -> [D EXCEPT !.sptr_array[s] = get_llvm_name(s)]
      C0 == update_llvm_sym_arrays(sym_is_refd(C, sptr))
      sc == C0.SC[sptr]
      midnum == stb[sptr].midnum
  IN  IF already_processed(C0, sptr) THEN C0
      ELSE
        LET C1 == [C0 EXCEPT !.sptr_type_array[sptr] = make_ptr_lltype(stb[sptr].dtype)]
        IN  CASE sc = "SC_CMBLK" -> set_global_sname(C1, sptr, get_llvm_name(sptr))
              [] sc = "SC_STATIC" -> process_static_sptr(C1, sptr)
              [] sc = "SC_EXTERN" ->
                   IF stb[sptr].stype \in {"ST_PROC", "ST_ENTRY"}
                   THEN process_extern_function_sptr(C1, sptr)
                   ELSE process_extern_variable_sptr(C1, sptr)
              [] sc = "SC_DUMMY" ->
                   IF stb[sptr].dtype = "DT_ADDR" /\ midnum # "" /\ midnum \in C1.homed_args
                   THEN [C1 EXCEPT !.sptr_type_array[sptr] = C1.sptr_type_array[midnum],
                                   !.sptr_array[sptr] = SNAME(C1, midnum)]
                   ELSE IF sptr \in C1.homed_args THEN process_auto_sptr(C1, sptr)
                   ELSE set_local_sname(C1, sptr, get_llvm_name(sptr))
              [] sc = "SC_LOCAL" -> process_local_sptr(C1, sptr)
              [] sc = "SC_BASED" -> set_local_sname(C1, sptr, get_llvm_name(sptr))
              [] sc = "SC_NONE" -> process_label_sptr(C1, sptr)
              [] sc = "SC_PRIVATE" -> process_private_sptr(C1, sptr)
              [] OTHER -> interr(C1, "process_sptr(): unexpected storage type")

process_sptr(C, flags, sptr) == process_sptr_offset(C, flags, sptr, 0)

llvmResetSname(C, sptr) == [C EXCEPT !.sptr_array[sptr] = ""]

\* the symbol side at the start of a routine's body: cg_llvm_init() has
\* cleared both shadow arrays and process_formal_arguments() has homed the
\* argument "a" and processed it.
SymStart(flags) ==
  process_sptr(
    [SC |-> [s \in SymIds |-> stb[s].sc],
     sptr_array |-> [s \in SymIds |-> ""],
     sptr_type_array |-> [s \in SymIds |-> ""],
     homed_args |-> {"a"},
     locals |-> <<>>, Globals |-> <<>>, recorded_Globals |-> {},
     exfuncs |-> <<>>, dbg |-> <<>>, fatal |-> "",
     last |-> [op |-> "", sptr |-> "", named |-> FALSE], resets |-> 0],
    flags, "a")

\* a reference to sptr (make_var_op(), make_stmt(), ...) calls process_sptr()
ProcessSptr ==
  /\ pc = "sptr"
  /\ S.fatal = ""
  /\ \E sptr \in cfg.syms :
       S' = [process_sptr(S, cfg, sptr) EXCEPT
               !.last = [op |-> "process_sptr", sptr |-> sptr,
                         named |-> S.sptr_array[sptr] # ""]]
  /\ UNCHANGED <<cfg, pc, blk, out>>

LlvmResetSname ==
  /\ pc = "sptr"
  /\ S.fatal = ""
  /\ S.resets < MaxResets
  /\ \E sptr \in cfg.syms :
       S' = [llvmResetSname(S, sptr) EXCEPT
               !.last = [op |-> "llvmResetSname", sptr |-> sptr,
                         named |-> S.sptr_array[sptr] # ""],
               !.resets = @ + 1]
  /\ UNCHANGED <<cfg, pc, blk, out>>

NextSptr == ProcessSptr \/ LlvmResetSname
InitSptr ==
  /\ cfg \in [syms : SymSets, debug : BOOLEAN, outlined : BOOLEAN]
  /\ pc = "sptr"
  /\ S = SymStart(cfg)
  /\ blk = [n |-> 0, merge |-> FALSE, closed |-> FALSE, nst |-> 0, mv |-> FALSE,
            joined |-> FALSE, base |-> 0]
  /\ out = <<>>
SpecSptr == InitSptr /\ [][NextSptr]_vars

print_arg_attributes(arg) ==
  LET kind == arg.kind
      inreg == IF arg.inreg THEN " inreg" ELSE ""
  IN  CASE kind \in {"LL_ARG_DIRECT", "LL_ARG_COERCE", "LL_ARG_INDIRECT"} ->
             [text |-> inreg, fatal |-> FALSE]
        [] kind = "LL_ARG_ZEROEXT" -> [text |-> " zeroext" \o inreg, fatal |-> FALSE]
        [] kind = "LL_ARG_SIGNEXT" -> [text |-> " signext" \o inreg, fatal |-> FALSE]
        [] kind = "LL_ARG_BYVAL" -> [text |-> " byval" \o inreg, fatal |-> FALSE]
        [] OTHER -> [text |-> "", fatal |-> TRUE]

RECURSIVE print_signature_args(_, _, _, _)
\* the loop of print_function_signature() over the arguments from i on; p
\* is the text printed so far, nothing is printed after a fatal error
print_signature_args(p, abi, i, need_comma) ==
  IF p.fatal \/ i > abi.nargs THEN p
  ELSE LET a == print_arg_attributes(abi.arg[i])
       IN  print_signature_args(
             [text |-> p.text \o (IF need_comma THEN ", " ELSE "")
                         \o abi.arg[i].type \o a.text,
              fatal |-> a.fatal],
             abi, i + 1, TRUE)

\* print_function_signature() as write_extern_fndecl() calls it: func_sptr 0,
\* no argument names.  The calling convention is the default one, the
\* function is not weak, and Flang sets -x 183 0x10.
print_function_signature(func_sptr, fn_name, abi, print_arg_names) ==
  LET ret == IF LL_ABI_HAS_SRET(abi) THEN [text |-> " void", fatal |-> FALSE]
             ELSE LET a == print_arg_attributes(abi.arg[0])
                  IN  [text |-> a.text \o (IF a.fatal THEN "" ELSE " " \o abi.arg[0].type),
                       fatal |-> a.fatal]
      open == IF ret.fatal THEN ret
              ELSE [ret EXCEPT !.text = @ \o " @" \o fn_name \o "("
                                 \o (IF LL_ABI_HAS_SRET(abi)
                                     THEN abi.arg[0].type \o " sret" ELSE "")]
      args == print_signature_args(open, abi, 1, LL_ABI_HAS_SRET(abi))
  IN  IF args.fatal THEN args
      ELSE [args EXCEPT !.text = @ \o (IF abi.is_varargs
                                       THEN (IF abi.nargs > 0 \/ LL_ABI_HAS_SRET(abi)
                                             THEN ", ..." ELSE "...")
                                       ELSE "") \o ")"]

\* write_extern_fndecl() of a function without a body in the file
write_extern_fndecl(fn_name) ==
  LET sig == print_function_signature(0, fn_name, ll_abi_from_call_site(fn_name), FALSE)
  IN  [sig EXCEPT !.text = "declare" \o @]

\* the functions called by the routine, in the order of their first call
called_functions(C) ==
  LET calls == SelectSeq([i \in 1..Len(C.insn) |-> i],
                         LAMBDA i : C.insn[i].i_name = "I_CALL" /\ C.insn[i].ilix # 0)
      fn(k) == ILI_OPND(C.insn[calls[k]].ilix, 1)
  IN  [k \in {j \in 1..Len(calls) : \A h \in 1..(j - 1) : fn(h) # fn(j)} |-> fn(k)]

\* the declarations are written one after the other; a fatal error ends the
\* compilation with what was printed of the line
WriteExternFndecls ==
  /\ pc = "done"
  /\ LET fns == called_functions(S)
         decl == [k \in DOMAIN fns |-> write_extern_fndecl(fns[k])]
         bad == {k \in DOMAIN fns : decl[k].fatal}
         upto == IF bad = {} THEN DOMAIN fns
                 ELSE {k \in DOMAIN fns : \A b \in bad : k <= b}
         ks == SelectSeq([i \in 1..Len(S.insn) |-> i], LAMBDA k : k \in upto)
     IN  /\ out' = out \o [j \in 1..Len(ks) |->
                            Line(IF decl[ks[j]].fatal THEN "interr" ELSE "declare",
                                 0, decl[ks[j]].text, FALSE)]
         /\ pc' = IF bad = {} THEN "decls" ELSE "fatal"
  /\ UNCHANGED <<cfg, S, blk>>

\* calls of functions with a prototype: every kind of argument
NextAbi == Next \/ WriteExternFndecls
InitAbi ==
  InitWith(Configs({{St(72, FALSE), St(73, FALSE), St(45, FALSE), St(39, FALSE),
                     St(44, FALSE)}},
                   {0, 1}, {FALSE}, {"GENERIC"}, {FALSE}, OneBlock))
SpecAbi == InitAbi /\ [][NextAbi]_vars

EnumeratedKinds ==
  {"LL_ARG_DIRECT", "LL_ARG_ZEROEXT", "LL_ARG_SIGNEXT", "LL_ARG_COERCE",
   "LL_ARG_INDIRECT", "LL_ARG_BYVAL"}
\* the call instructions made for a JSR ILI
LoweredCalls == {i \in 1..Len(S.insn) : S.insn[i].i_name = "I_CALL" /\ S.insn[i].ilix # 0}
CalleeAbi(i) == ll_abi_from_call_site(ILI_OPND(S.insn[i].ilix, 1))
\* the arguments of call i that the prototype classifies
ProtoArgs(i) ==
  {a \in (IF LL_ABI_HAS_SRET(CalleeAbi(i)) THEN 0 ELSE 1)..CalleeAbi(i).nargs :
     a + (IF LL_ABI_HAS_SRET(CalleeAbi(i)) THEN 1 ELSE 0) < Len(S.insn[i].operands)}
ArgOperand(i, a) ==
  S.insn[i].operands[a + (IF LL_ABI_HAS_SRET(CalleeAbi(i)) THEN 2 ELSE 1)]
UnknownKindIn(fn) ==
  LET abi == ll_abi_from_call_site(fn)
  IN  \E a \in (IF LL_ABI_HAS_SRET(abi) THEN 1 ELSE 0)..abi.nargs :
        abi.arg[a].kind \notin EnumeratedKinds
\* printing a signature with a kind outside the enumerated set ends in the
\* fatal error, and the line of that declaration is not completed
PrintingRaises ==
  /\ pc = "decls" => \A i \in LoweredCalls : ~UnknownKindIn(ILI_OPND(S.insn[i].ilix, 1))
  /\ pc = "fatal" =>
       /\ \E i \in LoweredCalls : UnknownKindIn(ILI_OPND(S.insn[i].ilix, 1))
       /\ out # <<>> /\ out[Len(out)].k = "interr"
       /\ \A j \in 1..Len(out) : out[j].k = "interr" => j = Len(out)
  /\ pc \in {"decls", "fatal"} =>
       \A i \in LoweredCalls :
         UnknownKindIn(ILI_OPND(S.insn[i].ilix, 1)) => pc = "fatal"

InitArith ==
  InitWith(Configs({{St(76, FALSE), St(77, FALSE), St(15, FALSE), St(59, FALSE)}},
                   {0, 1, 2}, {FALSE}, {"GENERIC"}, {FALSE}, OneBlock))
SpecArith == InitArith /\ [][Next]_vars

\* the printed lines of integer add, subtract, multiply and left shift
IntArithLines ==
  {j \in 1..Len(out) : out[j].k = "instr" /\ out[j].name \in {"I_ADD", "I_SUB", "I_MUL", "I_SHL"}}
PrintedNsw(j) == out[j].mods # <<>> /\ out[j].mods[1] \in {"add nsw", "sub nsw", "mul nsw", "shl nsw"}

\* C25 as stated: the no-signed-wrap marker is printed on an integer add,
\* subtract, multiply or left shift only when the instruction has the
\* NOSIGNEDWRAP flag, which the lowering sets for the signed opcodes only.
C25_NswOnlyWhenFlagged ==
  \A j \in IntArithLines :
    PrintedNsw(j) => /\ "NOSIGNEDWRAP" \in S.insn[out[j].id].flags
                     /\ ILI_OPC(S.insn[out[j].id].ilix) \notin {"IL_UIADD"}

\* the operands of the instructions in the list that refer to temporary t
TmpRefs(t) ==
  {pk \in (1..Len(S.list)) \X (1..8) :
     /\ pk[2] <= Len(S.insn[S.list[pk[1]]].operands)
     /\ S.insn[S.list[pk[1]]].operands[pk[2]].ot_type = "OT_TMP"
     /\ S.insn[S.list[pk[1]]].operands[pk[2]].tmps = t}

\* C26: from the first instruction of a routine until its list is printed,
\* the use count of every temporary is at least the number of operands in
\* the list that refer to it.
C26_UseCountCoversOperands ==
  \A t \in 1..Len(S.tmps) : S.tmps[t].use_count >= Cardinality(TmpRefs(t))
\* after the rewrite and the removal of dead instructions: a temporary with
\* exactly as many uses as operands, one kept alive by the fused
\* multiply-add, and an instruction that was removed
C26_Witness ==
  /\ pc = "print"
  /\ S.removed # <<>>
  /\ \E t \in 1..Len(S.tmps) :
       TmpRefs(t) # {} /\ S.tmps[t].use_count = Cardinality(TmpRefs(t))
  /\ \E t \in 1..Len(S.tmps) :
       TmpRefs(t) # {} /\ S.tmps[t].use_count >= 100

\* the lines of the printed text that hold a return, a branch or a switch
TerminatorLines ==
  {i \in 1..Len(out) : out[i].k \in {"ret", "br"} \/ (out[i].k = "instr" /\ out[i].name = "I_SW")}
\* list positions of an instruction, no label, that follows a terminator
AfterTerminator ==
  {p \in 2..Len(S.list) :
     /\ INSTR_IS_BRANCH(S.insn[S.list[p - 1]])
     /\ S.insn[S.list[p]].i_name # "I_NONE"}
LineOf(id) == CHOOSE i \in 1..Len(out) : out[i].id = id /\ ~out[i].synth
Printed(id) == \E i \in 1..Len(out) : out[i].id = id /\ ~out[i].synth

InitFence ==
  InitWith(Configs({{St(34, FALSE), St(26, FALSE), St(27, FALSE), St(28, FALSE),
                     St(60, FALSE)}},
                   {0, 1}, {FALSE}, {"GENERIC"}, {FALSE}, Shapes))
SpecFence == InitFence /\ [][Next]_vars

InitStore ==
  InitWith(Configs({{St(16, TRUE), St(18, TRUE), St(16, FALSE), St(21, TRUE),
                     St(24, FALSE)}},
                   {1, 2}, {FALSE}, {"GENERIC"}, {FALSE}, Shapes))
SpecStore == InitStore /\ [][Next]_vars

Made == 1..Len(S.insn)
StoreNme(id) == ILI_OPND(S.insn[id].ilix, 3)
NamedStores == {id \in Made : S.insn[id].i_name = "I_STORE" /\ S.insn[id].ilix # 0}
RemovedStores == {id \in NamedStores : \E k \in 1..Len(S.removed) : S.removed[k].id = id}
\* the load instructions made for a load node
RealLoads ==
  {id \in Made : /\ S.insn[id].i_name = "I_LOAD" /\ S.insn[id].ilix # 0
                 /\ IL_TYPE(ILI_OPC(S.insn[id].ilix)) = "ILTY_LOAD"}
\* the loads of the location of store s lowered after s in its extended
\* basic block: the load instructions made, and the log entries of the loads
\* that reused an instruction
LaterRealLoads(s) ==
  {l \in RealLoads : /\ l > s /\ S.insn[l].ebb = S.insn[s].ebb
                     /\ ILI_OPND(S.insn[l].ilix, 2) = StoreNme(s)}
LaterReuses(s) ==
  {i \in Reuses : /\ S.log[i].n >= s /\ S.log[i].ebb = S.insn[s].ebb
                  /\ LoadNme(i) = StoreNme(s)}
ForwardedFrom(i, s) == S.log[i].kind = "store" /\ S.log[i].src = s

\* C28 as stated: a store removed as deletable has every later load of its
\* location in its extended basic block forwarded from it, and a store with
\* a later load instruction of its location is not flagged and stays listed
C28_Original ==
  pc \in {"print", "done"} =>
    \A s \in NamedStores :
      /\ s \in RemovedStores =>
           /\ LaterRealLoads(s) = {}
           /\ \A i \in LaterReuses(s) : ForwardedFrom(i, s)
      /\ LaterRealLoads(s) # {} =>
           "DELETABLE" \notin S.insn[s].flags /\ s \in Listed

\* no store to the location of s was made after s up to instruction n
NoStoreSince(s, n) ==
  \A t \in NamedStores : ~(s < t /\ t <= n /\ StoreNme(t) = StoreNme(s))

\* C28: a store removed as deletable has every later load of its location in
\* its extended basic block that no other store to the location precedes
\* forwarded from it, and the nearest store before a load instruction made
\* for its location is not flagged and stays listed
C28_NearestStore ==
  pc \in {"print", "done"} =>
    \A s \in NamedStores :
      /\ s \in RemovedStores =>
           /\ \A l \in LaterRealLoads(s) : ~NoStoreSince(s, l)
           /\ \A i \in LaterReuses(s) : NoStoreSince(s, S.log[i].n) => ForwardedFrom(i, s)
      /\ (\E l \in LaterRealLoads(s) : NoStoreSince(s, l)) =>
           "DELETABLE" \notin S.insn[s].flags /\ s \in Listed

\* one flagged store was removed after its value was forwarded to a load, and
\* the flagged integer store stays listed, its flag cleared by the load
\* instruction made for the float read of its location
C28_Witness ==
  /\ pc = "print"
  /\ \E s \in RemovedStores : \E i \in LaterReuses(s) : ForwardedFrom(i, s)
  /\ \E s \in NamedStores :
       /\ S.insn[s].ilix = 21 /\ s \in Listed /\ "DELETABLE" \notin S.insn[s].flags
       /\ \E l \in LaterRealLoads(s) : NoStoreSince(s, l)

\* integer stores of one value in three sizes, after a float store
InitWidth ==
  InitWith(Configs({{St(16, FALSE), St(76, FALSE), St(78, FALSE), St(79, FALSE)}},
                   {0, 1}, {FALSE}, {"GENERIC"}, {FALSE}, OneBlock))
SpecWidth == InitWidth /\ [][Next]_vars

\* the log entries of the conversions convert_int_size() took over from an
\* earlier instruction
ConversionReuses ==
  {i \in LogIdx : /\ S.log[i].kind = "instr"
                  /\ S.insn[S.log[i].src].i_name \in {"I_TRUNC", "I_SEXT", "I_ZEXT"}}
\* the store statement during whose lowering log entry i was made
StoreOf(i) ==
  CHOOSE s \in NamedStores :
    s > S.log[i].n /\ \A r \in NamedStores : r > S.log[i].n => s <= r

\* C29: the conversion of the value of a store to the size of the store
\* yields an operand of that size, also when ad_csed_instr() takes the
\* conversion over from an earlier instruction
C29_RequestedType ==
  \A i \in ConversionReuses :
    ILI_OPND(S.insn[StoreOf(i)].ilix, 1) = S.log[i].ilix =>
      S.insn[S.log[i].src].ll_type
        = make_type_from_msz(ILI_MSZ_OF_ST(S.insn[StoreOf(i)].ilix))

\* atomic operations whose results go to stores flagged deletable and not
InitDead ==
  InitWith(Configs({{St(50, TRUE), St(57, TRUE), St(53, TRUE), St(50, FALSE),
                     St(57, FALSE)}},
                   {0, 1}, {FALSE}, {"GENERIC"}, {FALSE}, OneBlock))
SpecDead == InitDead /\ [][Next]_vars

RemovedIds == {S.removed[k].id : k \in 1..Len(S.removed)}
IsAtomic(id) == S.insn[id].flags \cap ATOMIC_MEM_ORD_FLAGS # {}

\* C30: remove_dead_instrs removes no volatile load, no atomic load and no
\* compare-exchange instruction, whatever the use count of its temporary
C30_AtomicsKept ==
  \A id \in RemovedIds :
    /\ S.insn[id].i_name # "I_CMPXCHG"
    /\ S.insn[id].i_name = "I_LOAD" =>
         ~IsAtomic(id) /\ "VOLATILE_FLAG" \notin S.insn[id].flags
====
